---- MODULE Spec2Model ----
(***************************************************************************)
(* A model of CodexJS (src/src/index.ts and the files it imports): the     *)
(* Codex object, its configuration calls, the registration pass that wires *)
(* decorated controllers into routers mounted on the Express application,  *)
(* the wrapper put around every controller method, the proxy in front of   *)
(* the Codex object, and the dispatch of a request through the resulting   *)
(* middleware stack.                                                       *)
(*                                                                         *)
(* Strings that the code takes apart (paths) are sequences of one-letter   *)
(* strings, so that startsWith, the trailing-slash replace and the         *)
(* concatenations are computed and not assumed.                            *)
(***************************************************************************)
EXTENDS Integers, Sequences, FiniteSets, TLC

VARIABLES
  config,     \* Codex.config: jsonEnabled, urlEncodedEnabled, globalBaseRoute, ...
  appStack,   \* the layers of the Express application, in registration order
  container,  \* typedi's Container: what it holds for each class
  routers,    \* how many ExpressRouter() objects were created so far
  lastOp,     \* the last call made on the Codex object: name, receiver, arguments
  ret,        \* what that call returned (or threw)
  calls,      \* number of configuration calls made so far (bounded)
  listening,  \* whether listen() was called: requests are served from then on
  last        \* the outcome of the last request dispatched (NoRequest before)

vars == <<config, appStack, container, routers, lastOp, ret, calls, listening, last>>

-----------------------------------------------------------------------------
(* Bounds *)

MaxCalls == 2

-----------------------------------------------------------------------------
(* JavaScript values *)

\* undefined, for a value that is otherwise a string or a list (a sequence)
Undefined == <<"undefined">>

\* `x || d` where x is a string or a list: undefined and '' are falsy. An empty
\* list is truthy and stays itself, which is the same empty sequence here.
OrElse(x, d) == IF x = Undefined \/ Len(x) = 0 THEN d ELSE x

\* the same for a value that may be missing altogether: <<>> is "no value",
\* <<v>> is the value v
OptOrElse(opt, d) == IF Len(opt) = 0 \/ Len(opt[1]) = 0 THEN d ELSE opt[1]

\* a parameter or destructuring default, `x = d`: only undefined takes the default
Default(x, d) == IF x = Undefined THEN d ELSE x

-----------------------------------------------------------------------------
(* Paths: sequences of letters *)

Slash == <<"/">>

StartsWithSlash(p) == Len(p) > 0 /\ p[1] = "/"

\* String.prototype.replace(/\/+$/, ''): drop every trailing slash.
RECURSIVE StripTrailingSlashes(_)
StripTrailingSlashes(p) ==
  IF Len(p) > 0 /\ p[Len(p)] = "/"
  THEN StripTrailingSlashes(SubSeq(p, 1, Len(p) - 1))
  ELSE p

IsPrefix(p, u) == Len(p) <= Len(u) /\ SubSeq(u, 1, Len(p)) = p

-----------------------------------------------------------------------------
(* Classes and the metadata the decorators attach to them *)

Classes ==
  {"UserService", "UserController", "RootController", "PlainClass",
   "UserModule", "RootModule", "BrokenModule", "PlainService", "LooseModule",
   "BaseController", "SubController", "OtherSubController", "BaseModule",
   "SubModule"}

\* Function.prototype.name of each class ('' for an anonymous class)
Name == [c \in Classes |-> c]

\* `class SubController extends BaseController`: the class a class extends
\* ("" for none); Reflect looks a key up along this chain
Extends ==
  [c \in Classes |->
     IF c \in {"SubController", "OtherSubController"} THEN "BaseController" ELSE ""]

\* The metadata store. own: one slot per class and key, <<>> is "not defined
\* on this class itself", <<v>> is "defined as v". The value of the routes key
\* is an array, an object with identity: the slot holds its number and arrays
\* holds the contents, so that two classes can hold the same array.
EmptyMeta ==
  [own |-> [c \in Classes |->
              [module |-> <<>>, controller |-> <<>>, middlewares |-> <<>>,
               routes |-> <<>>]],
   arrays |-> <<>>]

\* Reflect.defineMetadata: always on the target itself
defineMetadata(key, value, target, meta) ==
  [meta EXCEPT !.own[target][key] = <<value>>]

\* the class along the prototype chain of target, target first, that has the
\* key defined on itself ("" when none has)
RECURSIVE MetadataOwner(_, _, _)
MetadataOwner(meta, key, target) ==
  IF target = "" THEN ""
  ELSE IF Len(meta.own[target][key]) > 0 THEN target
  ELSE MetadataOwner(meta, key, Extends[target])

\* Reflect.hasMetadata: the key is defined on the target or on a class it extends
hasMetadata(meta, key, target) == MetadataOwner(meta, key, target) # ""

\* Reflect.getMetadata: <<>> when the key is not defined along the chain
\* (undefined), else <<v>>; for the routes key v is the array's contents
getMetadata(meta, key, target) ==
  IF ~hasMetadata(meta, key, target) THEN <<>>
  ELSE IF key = "routes"
       THEN <<meta.arrays[meta.own[MetadataOwner(meta, key, target)][key][1]]>>
       ELSE meta.own[MetadataOwner(meta, key, target)][key]

\* one element of a routes array
RouteMetadata(method, path, handler, middlewares) ==
  [method |-> method, path |-> Default(path, Slash), handler |-> handler,
   middlewares |-> Default(middlewares, <<>>)]

\* `Reflect.getMetadata('codex:routes', target.constructor) || []`: the number
\* of the array found along the chain, or of a new empty one
routesArray(meta, target) ==
  IF hasMetadata(meta, "routes", target)
  THEN [no |-> meta.own[MetadataOwner(meta, "routes", target)].routes[1],
        arrays |-> meta.arrays]
  ELSE [no |-> Len(meta.arrays) + 1, arrays |-> Append(meta.arrays, <<>>)]

\* (a variant that starts a new list at every application)
RouteDecorator_replaces(method, path, middlewares, target, propertyKey, meta) ==
  defineMetadata("routes", Len(meta.arrays) + 1, target,
                 [meta EXCEPT !.arrays =
                    Append(@, <<RouteMetadata(method, path, propertyKey, middlewares)>>)])

\* createRouteDecorator(method)(path, middlewares)(target, propertyKey):
\* routes.push(...) changes the array that was found, whoever else holds it,
\* and defineMetadata puts that same array on the class
RouteDecorator(method, path, middlewares, target, propertyKey, meta) ==
  LET routes == routesArray(meta, target)
  IN defineMetadata("routes", routes.no, target,
       [meta EXCEPT !.arrays =
          [routes.arrays EXCEPT ![routes.no] =
             Append(@, RouteMetadata(method, path, propertyKey, middlewares))]])

\* @Controller(basePath = '', middlewares = [])
Controller(basePath, middlewares, target, meta) ==
  defineMetadata("middlewares", Default(middlewares, <<>>), target,
    defineMetadata("controller", Default(basePath, <<>>), target, meta))

\* @Module(metadata)
Module(metadata, target, meta) == defineMetadata("module", metadata, target, meta)

\* The classes of the application under test, decorated in the order
\* TypeScript applies decorators (methods first, then the class; classes in
\* the order they are written, a class after the class it extends).
\*   @Controller('/u', [mc]) class UserController {
\*     @Get('/', [mr]) list() ; @Post() create() }
\*   @Controller() class RootController { @Get('/u') shadow() }
\*   @Module({controllers: [UserController], providers: [UserService]}) UserModule
\*   @Module({controllers: [RootController]}) RootModule
\*   @Module({controllers: [UserController, PlainClass]}) BrokenModule
\*   class PlainClass {}            (no decorator at all)
\*   class PlainService {}          (no decorator at all)
\*   @Module({controllers: [RootController], providers: [PlainService]}) LooseModule
\*   @Controller('/b') class BaseController { @Get('/') index() }
\*   class SubController extends BaseController { @Get('/extra') extra() }
\*   class OtherSubController extends BaseController {}
\*   @Module({controllers: [BaseController]}) BaseModule
\*   @Module({controllers: [SubController]}) SubModule
DecoratedStore ==
  LET m1 == RouteDecorator("get", Slash, <<"mr">>, "UserController", "list", EmptyMeta)
      m2 == RouteDecorator("post", Undefined, Undefined, "UserController", "create", m1)
      m3 == Controller(<<"/", "u">>, <<"mc">>, "UserController", m2)
      m4 == RouteDecorator("get", <<"/", "u">>, Undefined, "RootController", "shadow", m3)
      m5 == Controller(Undefined, Undefined, "RootController", m4)
      m6 == Module([controllers |-> <<"UserController">>,
                    providers |-> <<"UserService">>], "UserModule", m5)
      m7 == Module([controllers |-> <<"RootController">>,
                    providers |-> Undefined], "RootModule", m6)
      m8 == Module([controllers |-> <<"UserController", "PlainClass">>,
                    providers |-> Undefined], "BrokenModule", m7)
      m9 == Module([controllers |-> <<"RootController">>,
                    providers |-> <<"PlainService">>], "LooseModule", m8)
      m10 == RouteDecorator("get", Slash, Undefined, "BaseController", "index", m9)
      m11 == Controller(<<"/", "b">>, Undefined, "BaseController", m10)
      m12 == RouteDecorator("get", <<"/", "extra">>, Undefined, "SubController", "extra", m11)
      m13 == Module([controllers |-> <<"BaseController">>,
                     providers |-> Undefined], "BaseModule", m12)
      m14 == Module([controllers |-> <<"SubController">>,
                     providers |-> Undefined], "SubModule", m13)
  IN m14

\* what Reflect.getMetadata answers for each class and key once every class
\* is defined
DecoratedMeta ==
  [c \in Classes |->
     [k \in {"module", "controller", "middlewares", "routes"} |->
        getMetadata(DecoratedStore, k, c)]]

\* the methods an instance of each class has, its own and the inherited ones
Methods ==
  [c \in Classes |->
     CASE c = "UserController" -> {"list", "create"}
       [] c = "RootController" -> {"shadow"}
       [] c = "BaseController" -> {"index"}
       [] c = "SubController" -> {"index", "extra"}
       [] c = "OtherSubController" -> {"index"}
       [] OTHER -> {}]

\* Classes that went through typedi's Service() (every Codex class decorator
\* calls it), so the container knows them before anything is registered.
ServiceDecorated ==
  Classes \ {"PlainClass", "PlainService", "SubController", "OtherSubController"}

-----------------------------------------------------------------------------
(* assertion/assert.ts *)

isController(target) == hasMetadata(DecoratedStore, "controller", target)
isModule(target) == hasMetadata(DecoratedStore, "module", target)

className(target) == IF Name[target] = "" THEN "(anonymous class)" ELSE Name[target]

NoError == <<>>
ControllerError(target) ==
  <<[error |-> "Error", names |-> className(target),
     text |-> "is missing @Controller decorator. Did you forget to add @Controller() to the class?"]>>
ModuleError(target) ==
  <<[error |-> "Error", names |-> className(target),
     text |-> "is missing @Module() metadata."]>>

\* (a variant that accepts every class)
assertController_acceptsAll(target) == NoError

\* what assertController(target) throws: NoError when it returns
assertController(target) ==
  IF ~isController(target) THEN ControllerError(target) ELSE NoError
assertModule(target) ==
  IF ~isModule(target) THEN ModuleError(target) ELSE NoError

Threw(err) == Len(err) > 0

-----------------------------------------------------------------------------
(* typedi Container, as far as registration uses it *)

\* One entry per class: "absent" (the container does not know the class),
\* "declared" (Service() registered the class, no instance yet) or "instance";
\* made counts the instances constructed for the class, by says who
\* constructed the one held ("new": the caller, "container": typedi).
NoEntry == [state |-> "absent", made |-> 0, by |-> ""]
Declared == [state |-> "declared", made |-> 0, by |-> ""]
ContainerInit == [c \in Classes |-> IF c \in ServiceDecorated THEN Declared ELSE NoEntry]
ContainerHas(cont, c) == cont[c].state # "absent"
\* Container.set(c, new c())
ContainerSet(cont, c) ==
  [cont EXCEPT ![c] = [state |-> "instance", made |-> @.made + 1, by |-> "new"]]

\* Container.get(c) for a class the container does not know depends on the
\* typedi release that is installed: later releases throw ServiceNotFoundError,
\* earlier ones register the class and construct it.
TypediBuilds == {"throws", "creates"}
ServiceNotFoundError(c) ==
  <<[error |-> "ServiceNotFoundError", names |-> c,
     text |-> "was not found in the container"]>>
ContainerGetThrows(cont, c, typedi) == ~ContainerHas(cont, c) /\ typedi = "throws"
\* Container.get(c) when it returns: the singleton is constructed by the
\* container on the first get and kept
ContainerGet(cont, c) ==
  IF cont[c].state = "instance" THEN cont
  ELSE [cont EXCEPT ![c] = [state |-> "instance", made |-> @.made + 1, by |-> "container"]]
\* the object Container.get(c) returns
InstanceOf(cont, c) == [cls |-> c, no |-> cont[c].made, by |-> cont[c].by]

-----------------------------------------------------------------------------
(* Express: functions, layers, routers *)

\* a user-supplied middleware or handler function, known by its name
Mw(name) == [type |-> "function", name |-> name, inst |-> "", no |-> 0, key |-> ""]
MwList(names) == [k \in 1..Len(names) |-> Mw(names[k])]
\* the function createHandler(instance, handlerKey) returns
Wrapped(instance, handlerKey) ==
  [type |-> "wrapped", name |-> "createHandler", inst |-> instance.cls,
   no |-> instance.no, key |-> handlerKey]
\* a user-supplied error-handling middleware (four parameters)
ErrMw(name) == [type |-> "errorHandler", name |-> name, inst |-> "", no |-> 0, key |-> ""]
\* functions made by express itself, and Codex's default not-found handler
Builtin(name) == [type |-> "builtin", name |-> name, inst |-> "", no |-> 0, key |-> ""]

NoOrigin == [form |-> "", controller |-> "", groupMiddlewares |-> <<>>]

\* app.use(fn) / router.use(fn): a layer at '/' that matches every path
UseLayer(fn) ==
  [kind |-> "use", path |-> Slash, method |-> "", handlers |-> <<fn>>,
   stack |-> <<>>, id |-> 0, origin |-> NoOrigin]
UseLayers(fns) == [k \in 1..Len(fns) |-> UseLayer(fns[k])]
\* app.use(path, fn)
UseAtLayer(path, fn) == [UseLayer(fn) EXCEPT !.path = path]
\* app[method](path, ...handlers) / router[method](path, ...handlers)
RouteLayer(method, path, handlers) ==
  [kind |-> "route", path |-> path, method |-> method, handlers |-> handlers,
   stack |-> <<>>, id |-> 0, origin |-> NoOrigin]
\* app.use(path, router), router being the id-th ExpressRouter() with this stack
RouterLayer(path, id, stack, origin) ==
  [kind |-> "router", path |-> path, method |-> "", handlers |-> <<>>,
   stack |-> stack, id |-> id, origin |-> origin]

-----------------------------------------------------------------------------
(* Codex.registerModules and Codex.registerControllers *)

\* the routes.forEach of both registration paths
RouteLayers(instance, routes) ==
  [k \in 1..Len(routes) |->
     RouteLayer(routes[k].method, routes[k].path,
                MwList(routes[k].middlewares) \o <<Wrapped(instance, routes[k].handler)>>)]

\* the path handed to app.use in registerControllers
PlainMountPath(cfg, basePath) == cfg.globalBaseRoute \o basePath
\* (a variant that forgets the group's route)
GroupMountPath_noPrefix(cfg, routePrefix, basePath) == cfg.globalBaseRoute \o basePath
\* the path handed to app.use in the grouped branch of registerModules
GroupMountPath(cfg, routePrefix, basePath) == cfg.globalBaseRoute \o routePrefix \o basePath

\* router.use(...X) calls in the order each registration path makes them
PlainRouterUses(cfg, controllerMiddlewares) ==
  UseLayers(MwList(cfg.globalMiddlewares)) \o UseLayers(MwList(controllerMiddlewares))
\* (a variant that installs the controller's middlewares first)
GroupRouterUses_controllerFirst(middlewares, controllerMiddlewares) ==
  UseLayers(MwList(controllerMiddlewares)) \o UseLayers(MwList(middlewares))
GroupRouterUses(middlewares, controllerMiddlewares) ==
  UseLayers(MwList(middlewares)) \o UseLayers(MwList(controllerMiddlewares))

\* what the pass did, in the order it did it: a provider visited by
\* providers.forEach, a controller instance fetched, a router mounted
Ev(what, cls) == [what |-> what, cls |-> cls]

\* an exception leaves the pass where it is thrown: st with the error recorded
Throw(st, err) == [st EXCEPT !.thrown = err]
\* `assertX(target); rest`: rest runs only when the assertion returned
AssertThen(err, st, rest) == IF Threw(err) THEN Throw(st, err) ELSE rest

\* (a variant that constructs the controller itself at every registration)
controllerInstance_constructed(cont, ControllerClass) == ContainerSet(cont, ControllerClass)
\* const instance = Container.get(ControllerClass): the container afterwards
controllerInstance(cont, ControllerClass) == ContainerGet(cont, ControllerClass)

\* the body of registerControllers' forEach, after assertController passed
MountPlain(st, ControllerClass, cfg) ==
  LET basePath == OptOrElse(getMetadata(DecoratedStore, "controller", ControllerClass), <<>>)
      controllerMiddlewares ==
        OptOrElse(getMetadata(DecoratedStore, "middlewares", ControllerClass), <<>>)
      cont == controllerInstance(st.container, ControllerClass)
      instance == InstanceOf(cont, ControllerClass)
      routes == OptOrElse(getMetadata(DecoratedStore, "routes", ControllerClass), <<>>)
      router == PlainRouterUses(cfg, controllerMiddlewares) \o RouteLayers(instance, routes)
      origin == [form |-> "plain", controller |-> ControllerClass,
                 groupMiddlewares |-> <<>>]
  IN IF ContainerGetThrows(st.container, ControllerClass, st.typedi)
     THEN [st EXCEPT !.routers = st.routers + 1,
                     !.thrown = ServiceNotFoundError(ControllerClass)]
     ELSE [st EXCEPT !.container = cont,
                     !.routers = st.routers + 1,
                     !.stack = Append(st.stack,
                                 RouterLayer(PlainMountPath(cfg, basePath),
                                             st.routers + 1, router, origin)),
                     !.log = st.log \o <<Ev("instance", ControllerClass),
                                         Ev("mount", ControllerClass)>>]

\* controllers.forEach of registerControllers; nothing more runs once an
\* assertion threw
RECURSIVE registerControllers(_, _, _, _)
registerControllers(st, controllers, i, cfg) ==
  IF i > Len(controllers) \/ Threw(st.thrown) THEN st
  ELSE registerControllers(
         AssertThen(assertController(controllers[i]), st,
                    MountPlain(st, controllers[i], cfg)),
         controllers, i + 1, cfg)

\* the body of the grouped branch's controllers.forEach, after assertController
MountGrouped(st, ControllerClass, routePrefix, middlewares, cfg) ==
  LET basePath == OptOrElse(getMetadata(DecoratedStore, "controller", ControllerClass), <<>>)
      controllerMiddlewares ==
        OptOrElse(getMetadata(DecoratedStore, "middlewares", ControllerClass), <<>>)
      cont == controllerInstance(st.container, ControllerClass)
      instance == InstanceOf(cont, ControllerClass)
      routes == OptOrElse(getMetadata(DecoratedStore, "routes", ControllerClass), <<>>)
      router == GroupRouterUses(middlewares, controllerMiddlewares)
                  \o RouteLayers(instance, routes)
      origin == [form |-> "group", controller |-> ControllerClass,
                 groupMiddlewares |-> middlewares]
  IN IF ContainerGetThrows(st.container, ControllerClass, st.typedi)
     THEN [st EXCEPT !.routers = st.routers + 1,
                     !.thrown = ServiceNotFoundError(ControllerClass)]
     ELSE [st EXCEPT !.container = cont,
                     !.routers = st.routers + 1,
                     !.stack = Append(st.stack,
                                 RouterLayer(GroupMountPath(cfg, routePrefix, basePath),
                                             st.routers + 1, router, origin)),
                     !.log = st.log \o <<Ev("instance", ControllerClass),
                                         Ev("mount", ControllerClass)>>]

RECURSIVE groupControllers(_, _, _, _, _, _)
groupControllers(st, controllers, i, routePrefix, middlewares, cfg) ==
  IF i > Len(controllers) \/ Threw(st.thrown) THEN st
  ELSE groupControllers(
         AssertThen(assertController(controllers[i]), st,
                    MountGrouped(st, controllers[i], routePrefix, middlewares, cfg)),
         controllers, i + 1, routePrefix, middlewares, cfg)

\* (a variant without the Container.has test)
plainProvider_alwaysSets(st, provider) ==
  [st EXCEPT !.container = ContainerSet(st.container, provider),
             !.log = Append(st.log, Ev("provider", provider))]
\* if (!Container.has(provider)) Container.set(provider, new provider())
plainProvider(st, provider) ==
  [st EXCEPT !.container = IF ~ContainerHas(st.container, provider)
                           THEN ContainerSet(st.container, provider)
                           ELSE st.container,
             !.log = Append(st.log, Ev("provider", provider))]

\* providers.forEach of the plain branch
RECURSIVE plainProviders(_, _, _)
plainProviders(st, providers, i) ==
  IF i > Len(providers) \/ Threw(st.thrown) THEN st
  ELSE plainProviders(plainProvider(st, providers[i]), providers, i + 1)

\* if (!Container.has(provider)) Container.get(provider)
groupProvider(st, provider) ==
  IF ContainerHas(st.container, provider)
  THEN [st EXCEPT !.log = Append(st.log, Ev("provider", provider))]
  ELSE IF ContainerGetThrows(st.container, provider, st.typedi)
       THEN Throw(st, ServiceNotFoundError(provider))
       ELSE [st EXCEPT !.container = ContainerGet(st.container, provider),
                       !.log = Append(st.log, Ev("provider", provider))]

\* providers.forEach of the grouped branch
RECURSIVE groupProviders(_, _, _)
groupProviders(st, providers, i) ==
  IF i > Len(providers) \/ Threw(st.thrown) THEN st
  ELSE groupProviders(groupProvider(st, providers[i]), providers, i + 1)

\* `if (controllers.length > 0) this.registerControllers(controllers)`, run
\* on the state the providers pass left
plainControllers(st, controllers, cfg) ==
  IF Len(controllers) > 0 /\ ~Threw(st.thrown)
  THEN registerControllers(st, controllers, 1, cfg)
  ELSE st

\* (a variant that registers the controllers of a module before its providers)
loadPlain_controllersFirst(st, metadata, cfg) ==
  plainProviders(plainControllers(st, Default(metadata.controllers, <<>>), cfg),
                 Default(metadata.providers, <<>>), 1)

\* the plain branch after assertModule: the module's metadata is read, its
\* providers are put in the container, its controllers are registered
loadPlain(st, metadata, cfg) ==
  plainControllers(plainProviders(st, Default(metadata.providers, <<>>), 1),
                   Default(metadata.controllers, <<>>), cfg)

\* the plain branch: typeof item === 'function'
registerPlain(st, item, cfg) ==
  AssertThen(assertModule(item), st,
             loadPlain(st, getMetadata(DecoratedStore, "module", item)[1], cfg))

\* `if (controllers.length > 0) controllers.forEach(...)` of the grouped
\* branch, run on the state the providers pass left
groupedControllers(st, controllers, routePrefix, middlewares, cfg) ==
  IF Len(controllers) > 0 /\ ~Threw(st.thrown)
  THEN groupControllers(st, controllers, 1, routePrefix, middlewares, cfg)
  ELSE st

\* the body of item.modules.forEach after assertModule
loadGrouped(st, metadata, routePrefix, middlewares, cfg) ==
  groupedControllers(groupProviders(st, Default(metadata.providers, <<>>), 1),
                     Default(metadata.controllers, <<>>),
                     routePrefix, middlewares, cfg)

\* item.modules.forEach of the grouped branch
RECURSIVE groupModules(_, _, _, _, _, _)
groupModules(st, modules, i, routePrefix, middlewares, cfg) ==
  IF i > Len(modules) \/ Threw(st.thrown) THEN st
  ELSE groupModules(
         AssertThen(assertModule(modules[i]), st,
                    loadGrouped(st, getMetadata(DecoratedStore, "module", modules[i])[1],
                                routePrefix, middlewares, cfg)),
         modules, i + 1, routePrefix, middlewares, cfg)

\* the grouped branch: 'modules' in item && Array.isArray(item.modules)
registerGroup(st, item, cfg) ==
  groupModules(st, item.modules, 1, OrElse(item.route, <<>>),
               OrElse(item.middlewares, <<>>), cfg)

\* one element of registrations: a module class, a group, or neither
registerItem(st, item, cfg) ==
  CASE item.form = "class" -> registerPlain(st, item.cls, cfg)
    [] item.form = "group" -> registerGroup(st, item, cfg)
    [] OTHER -> st

\* registrations.forEach; an exception ends the pass where it is thrown
RECURSIVE registerModules(_, _, _, _)
registerModules(st, registrations, i, cfg) ==
  IF i > Len(registrations) \/ Threw(st.thrown) THEN st
  ELSE registerModules(registerItem(st, registrations[i], cfg), registrations, i + 1, cfg)

-----------------------------------------------------------------------------
(* Codex configuration methods *)

ConfigInit ==
  [jsonEnabled |-> FALSE, urlEncodedEnabled |-> FALSE, globalBaseRoute |-> <<>>,
   globalMiddlewares |-> <<>>, notFoundHandler |-> Undefined]

\* (a variant that keeps the trailing slashes)
baseRoute_keepsTrailing(path) ==
  IF path = Undefined \/ Len(path) = 0 \/ path = Slash THEN <<>>
  ELSE IF StartsWithSlash(path) THEN path ELSE Slash \o path

\* Codex.baseRoute: the new value of config.globalBaseRoute
baseRoute(path) ==
  IF path = Undefined \/ Len(path) = 0 \/ path = Slash THEN <<>>
  ELSE StripTrailingSlashes(IF StartsWithSlash(path) THEN path ELSE Slash \o path)

\* (a variant that leaves the global base route out)
shortcutPath_noBase(cfg, path) == path

\* const fullPath = this.config.globalBaseRoute + path
shortcutPath(cfg, path) == cfg.globalBaseRoute \o path

\* (a variant that registers every shortcut for GET)
createHttpMethod_asGet(cfg, method, path, handlers) ==
  RouteLayer("get", shortcutPath(cfg, path), handlers)

\* createHttpMethod(method)(path, ...handlers): the layer put on the app
createHttpMethod(cfg, method, path, handlers) ==
  RouteLayer(method, shortcutPath(cfg, path), handlers)

\* (a variant that hands the list to app.use last element first)
useBefore_reversed(middlewares) ==
  [k \in 1..Len(middlewares) |-> UseLayer(Mw(middlewares[Len(middlewares) + 1 - k]))]

\* Codex.useBefore: the layers added
useBefore(middlewares) ==
  IF Len(middlewares) > 0 THEN UseLayers(MwList(middlewares)) ELSE <<>>

\* Codex.handleNotFound: handler || this.config.notFoundHandler || default
DefaultNotFound == Builtin("defaultNotFound")
handleNotFound(cfg, handler) ==
  LET finalHandler == IF handler # Undefined THEN Mw(handler[1])
                      ELSE IF cfg.notFoundHandler # Undefined THEN Mw(cfg.notFoundHandler[1])
                      ELSE DefaultNotFound
  IN UseLayer(finalHandler)

\* process.cwd()
Cwd == "/srv/app"
\* a dirPath argument: its text, and whether it is an absolute path
Dir(text, abs) == [text |-> text, abs |-> abs]
\* path.resolve(process.cwd(), dirPath): an absolute dirPath stands for
\* itself, a relative one is taken from the working directory
resolvedPath(dirPath) ==
  IF dirPath.abs THEN dirPath.text ELSE Cwd \o "/" \o dirPath.text

\* (a variant that mounts at the route as given)
staticMountPath_asGiven(route) ==
  IF route # Undefined /\ Len(route) > 0 THEN route ELSE Slash

\* Codex.serveStatic: the mount path
staticMountPath(route) ==
  IF route # Undefined /\ Len(route) > 0
  THEN (IF StartsWithSlash(route) THEN route ELSE Slash \o route)
  ELSE Slash

-----------------------------------------------------------------------------
(* core/Proxy.ts and the members of the two objects behind it *)

\* names that `prop in target` finds on the Codex object: own fields, the five
\* shortcuts assigned in the constructor, the prototype's methods, and what
\* every object inherits
CodexMembers ==
  {"app", "config", "get", "post", "put", "delete", "patch",
   "instance", "baseRoute", "use", "useBefore", "handleNotFound", "enableJson",
   "enableUrlEncoded", "serveStatic", "registerModules", "registerControllers",
   "registerProviders", "createHandler", "createHttpMethod",
   "constructor", "toString"}

blocked == {"use", "enableJson", "enableUrlEncoded", "registerModules"}

\* members of the Express application that the model reads through the proxy
ExpressFunctions == {"listen", "set", "enable", "enabled", "use", "get"}
ExpressValues == {"locals", "mountpath"}

\* (target.app)[prop]
ExpressMember(prop) ==
  IF prop \in ExpressFunctions THEN [kind |-> "function", of |-> "app", name |-> prop]
  ELSE IF prop \in ExpressValues THEN [kind |-> "value", of |-> "app", name |-> prop]
  ELSE [kind |-> "undefined", of |-> "", name |-> ""]

\* what calling the Express function `name` with `this` and `args` returns:
\* app.listen returns the server, app.set(k, v) and app.enable(k) return the
\* application, app.set(k) and app.enabled(k) return the setting
ExpressCall(name, this, args) ==
  IF this # "app" THEN "TypeError"
  ELSE CASE name = "listen" -> "server"
         [] name = "set" -> IF Len(args) >= 2 THEN "app" ELSE "setting"
         [] name = "enable" -> "app"
         [] name = "enabled" -> "setting"
         [] OTHER -> "app"

\* Reflect.get(target, prop, receiver) on the Codex object
CodexMember(prop) ==
  IF prop \in CodexMembers THEN [kind |-> "member", of |-> "codex", name |-> prop]
  ELSE [kind |-> "undefined", of |-> "", name |-> ""]

\* (a variant without the `prop in target` test)
proxyBranch_blockedOnly(prop) ==
  IF prop \in blocked THEN "blocked" ELSE "express"
\* which of the three returns of proxyHandler answers a read of prop:
\* `prop in target`, `blocked.includes(prop)`, or the Express application
proxyBranch(prop) ==
  IF prop \in CodexMembers THEN "in target"
  ELSE IF prop \in blocked THEN "blocked"
  ELSE "express"

\* CodexProxy.proxyHandler(target, prop, receiver): what the read gives. A
\* function of Express comes back as the arrow function of lines 23-27, which
\* is described by the function it applies and the `this` it applies it to.
proxyHandler(prop, receiver) ==
  IF proxyBranch(prop) \in {"in target", "blocked"} THEN CodexMember(prop)
  ELSE LET value == ExpressMember(prop)
       IN IF value.kind = "function"
          THEN [kind |-> "forwarder", of |-> "app", name |-> prop]
          ELSE value

\* calling that arrow function: value.apply(target.app, args), and the
\* application replaced by the receiver
forwarderThis == "app"
\* (a variant that hands the result back as it is)
forwarderResult_asIs(result, receiver) == result
forwarderResult(result, receiver) == IF result = "app" THEN receiver ELSE result
callForwarder(name, args, receiver) ==
  forwarderResult(ExpressCall(name, forwarderThis, args), receiver)

\* the `this` inside the arrow functions createHttpMethod returns: the object
\* under construction, which is the proxy's target and not the proxy
shortcutReturn(receiver) == "target"
\* express.json()
JsonParser == Builtin("express.json")
\* express.urlencoded(options)
UrlEncodedParser(options) == [Builtin("express.urlencoded") EXCEPT !.key = options[1]]

\* (a variant without the jsonEnabled test)
enableJson_always(cfg) ==
  [use |-> <<UseLayer(JsonParser)>>, config |-> [cfg EXCEPT !.jsonEnabled = TRUE]]
\* enableJson(): the layers it hands to app.use and the configuration it leaves
enableJson(cfg) ==
  IF ~cfg.jsonEnabled
  THEN [use |-> <<UseLayer(JsonParser)>>, config |-> [cfg EXCEPT !.jsonEnabled = TRUE]]
  ELSE [use |-> <<>>, config |-> cfg]

\* enableUrlEncoded(options = { extended: true })
enableUrlEncoded(cfg, options) ==
  IF ~cfg.urlEncodedEnabled
  THEN [use |-> <<UseLayer(UrlEncodedParser(Default(options, <<"extended:true">>)))>>,
        config |-> [cfg EXCEPT !.urlEncodedEnabled = TRUE]]
  ELSE [use |-> <<>>, config |-> cfg]

\* `return this` of a method called as receiver.method(...)
methodReturn(receiver) == receiver

-----------------------------------------------------------------------------
(* Codex.createHandler: the wrapper around a controller method *)

\* values a handler may return or resolve to; "10n" (a BigInt) stands for the
\* values JSON.stringify refuses, on which res.json throws a TypeError
Values == {"undefined", "null", "false", "0", "''", "{id:1}", "10n"}
Serialisable(v) == v # "10n"

\* What the controller method does with (req, res, next):
\*   return: returns (or resolves to) val; sends says whether it answered the
\*           request itself before returning
\*   throw / reject: throws synchronously / returns a promise that rejects
\*   pass: calls next() itself and returns undefined
Beh(kind, val, sends) == [kind |-> kind, val |-> val, sends |-> sends]
Behaviours ==
  {Beh("return", v, FALSE) : v \in Values}
    \cup {Beh("return", "undefined", TRUE), Beh("return", "{id:1}", TRUE)}
    \cup {Beh("throw", "boom", FALSE), Beh("reject", "boom", FALSE),
          Beh("pass", "undefined", FALSE)}

\* (a variant that tests the result for truthiness)
shouldSendJson_truthy(result, headersSent) ==
  result \notin {"undefined", "null", "false", "0", "''"} /\ ~headersSent

\* `result !== undefined && !res.headersSent`
shouldSendJson(result, headersSent) == result # "undefined" /\ ~headersSent

\* (a variant whose test leaves res.headersSent out)
wrapperCalls_noHeadersTest(beh, headersSent) ==
  IF beh.kind \in {"throw", "reject"}
  THEN [json |-> <<>>, next |-> <<beh.val>>]
  ELSE IF beh.val # "undefined"
       THEN [json |-> <<beh.val>>,
             next |-> IF Serialisable(beh.val) THEN <<>> ELSE <<"TypeError">>]
       ELSE [json |-> <<>>, next |-> <<>>]

\* (a variant with no catch around a rejected promise)
wrapperCalls_noCatchForRejection(beh, headersSent) ==
  IF beh.kind = "throw"
  THEN [json |-> <<>>, next |-> <<beh.val>>]
  ELSE IF beh.kind = "return" /\ shouldSendJson(beh.val, headersSent)
       THEN [json |-> <<beh.val>>,
             next |-> IF Serialisable(beh.val) THEN <<>> ELSE <<"TypeError">>]
       ELSE [json |-> <<>>, next |-> <<>>]

\* The wrapper's own calls for one invocation: the arguments it passed to
\* res.json and to next, given what the method did and res.headersSent at the
\* time of the test.
createHandler(beh, headersSent) ==
  IF beh.kind \in {"throw", "reject"}
  THEN [json |-> <<>>, next |-> <<beh.val>>]
  ELSE IF shouldSendJson(beh.val, headersSent)
       THEN [json |-> <<beh.val>>,
             next |-> IF Serialisable(beh.val) THEN <<>> ELSE <<"TypeError">>]
       ELSE [json |-> <<>>, next |-> <<>>]

-----------------------------------------------------------------------------
(* A request through the Express stack *)

\* express matches a path without regard to one trailing slash
strip1(p) == IF Len(p) > 0 /\ p[Len(p)] = "/" THEN SubSeq(p, 1, Len(p) - 1) ELSE p
\* a layer added with use(path, ...): a prefix match that ends at a '/' or at the end
MountMatches(p, url) ==
  LET q == strip1(p)
  IN IsPrefix(q, url) /\ (Len(url) = Len(q) \/ url[Len(q) + 1] = "/")
\* req.url inside the mounted function
Rest(p, url) ==
  LET r == SubSeq(url, Len(strip1(p)) + 1, Len(url))
  IN IF Len(r) = 0 THEN Slash ELSE r
\* a route: the whole path
RouteMatches(p, url) == strip1(p) = strip1(url)

NewCtx == [err |-> <<>>, responses |-> <<>>, trace |-> <<>>, flow |-> "next"]
HeadersSent(ctx) == Len(ctx.responses) > 0

Response(by, at, status, body) == [by |-> by, at |-> at, status |-> status, body |-> body]

\* one function that ran: where it sits (layer indices), the error it was
\* called with (error-handling middleware only), what the wrapper called
\* (wrapped handlers only) and whether the function called next itself
Ran(fn, at, got, beh, json, next, ownNext, sentAtTest) ==
  [fn |-> fn, at |-> at, got |-> got, beh |-> beh, json |-> json, next |-> next,
   ownNext |-> ownNext, sentAtTest |-> sentAtTest,
   call |-> [this |-> [cls |-> "", no |-> 0], key |-> "", args |-> <<>>]]
NoBeh == Beh("", "", FALSE)

\* instance[handlerKey](req, res, next): the method read from the instance the
\* wrapper closed over and called on it
methodCall(fn) ==
  [this |-> [cls |-> fn.inst, no |-> fn.no], key |-> fn.key,
   args |-> <<"req", "res", "next">>]

\* instance[handlerKey] is undefined when the instance has no such method, and
\* calling it throws a TypeError inside the wrapper's try; otherwise the
\* method does what it does
methodBehaviour(fn, beh) ==
  IF fn.key \in Methods[fn.inst] THEN beh ELSE Beh("throw", "TypeError", FALSE)

\* (a variant whose wrapper hands the request on after every invocation)
RunWrapped_fallsThrough(fn, at, ctx, inp) ==
  LET beh == methodBehaviour(fn, inp.beh)
      afterHandler ==
        IF beh.sends
        THEN Append(ctx.responses, Response("handler", at, 200, beh.val))
        ELSE ctx.responses
      sent == Len(afterHandler) > 0
      w == createHandler(beh, sent)
      answered == Len(w.json) > 0 /\ Len(w.next) = 0
      responses == IF answered
                   THEN Append(afterHandler, Response("res.json", at, 200, w.json[1]))
                   ELSE afterHandler
  IN [ctx EXCEPT
        !.responses = responses,
        !.trace = Append(ctx.trace,
                    [Ran(fn, at, <<>>, beh, w.json, w.next, beh.kind = "pass", sent)
                       EXCEPT !.call = methodCall(fn)]),
        !.err = w.next,
        !.flow = "next"]

\* a wrapped controller method runs
RunWrapped(fn, at, ctx, inp) ==
  LET beh == methodBehaviour(fn, inp.beh)
      afterHandler ==
        IF beh.sends
        THEN Append(ctx.responses, Response("handler", at, 200, beh.val))
        ELSE ctx.responses
      sent == Len(afterHandler) > 0
      w == createHandler(beh, sent)
      answered == Len(w.json) > 0 /\ Len(w.next) = 0
      responses == IF answered
                   THEN Append(afterHandler, Response("res.json", at, 200, w.json[1]))
                   ELSE afterHandler
  IN [ctx EXCEPT
        !.responses = responses,
        !.trace = Append(ctx.trace,
                    [Ran(fn, at, <<>>, beh, w.json, w.next, beh.kind = "pass", sent)
                       EXCEPT !.call = methodCall(fn)]),
        !.err = w.next,
        !.flow = IF beh.kind = "pass" \/ Len(w.next) > 0 THEN "next" ELSE "stop"]

\* a user function that answers the request (a plain handler, a not-found
\* handler, an error-handling middleware) or Codex's default not-found handler
Answers(fn) ==
  \/ fn.type = "function" /\ fn.name \in {"h", "nf"}
  \/ fn.type = "errorHandler"
  \/ fn = DefaultNotFound

\* (a variant of the default not-found answer that keeps the status at 200)
defaultNotFoundAnswer_noStatus(at, req) ==
  Response(DefaultNotFound.name, at, 200,
           [status |-> "fail", message |-> req.url \o <<" not found">>])
\* the default handler of handleNotFound:
\* res.status(404).json({status: 'fail', message: `${req.originalUrl} not found`})
defaultNotFoundAnswer(at, req) ==
  Response(DefaultNotFound.name, at, 404,
           [status |-> "fail", message |-> req.url \o <<" not found">>])

AnswerOf(fn, at, req) ==
  IF fn = DefaultNotFound
  THEN defaultNotFoundAnswer(at, req)
  ELSE Response(fn.name, at, IF fn.type = "errorHandler" THEN 500 ELSE 200, fn.name)

\* any other function runs: it answers, or it calls next
RunOther(fn, at, ctx, req, inp) ==
  LET stops == Answers(fn) \/ fn.name = inp.stopper
  IN [ctx EXCEPT
        !.responses = IF stops THEN Append(ctx.responses, AnswerOf(fn, at, req))
                      ELSE ctx.responses,
        !.trace = Append(ctx.trace,
                    Ran(fn, at, ctx.err, NoBeh, <<>>, <<>>, ~stops, HeadersSent(ctx))),
        !.err = <<>>,
        !.flow = IF stops THEN "stop" ELSE "next"]

RunFn(fn, at, ctx, req, inp) ==
  IF fn.type = "wrapped" THEN RunWrapped(fn, at, ctx, inp)
  ELSE RunOther(fn, at, ctx, req, inp)

\* Route.dispatch: the handlers of one route in order; an error leaves the route
RECURSIVE RunHandlers(_, _, _, _, _, _)
RunHandlers(handlers, k, at, ctx, req, inp) ==
  IF k > Len(handlers) THEN ctx
  ELSE LET c == RunFn(handlers[k], Append(at, k), ctx, req, inp)
       IN IF c.flow = "stop" \/ Threw(c.err) THEN c
          ELSE RunHandlers(handlers, k + 1, at, c, req, inp)

\* does this layer take the request in the state the chain is in
LayerRuns(L, url, req, ctx) ==
  CASE L.kind = "use" ->
         /\ MountMatches(L.path, url)
         /\ (L.handlers[1].type = "errorHandler") = Threw(ctx.err)
    [] L.kind = "router" -> ~Threw(ctx.err) /\ MountMatches(L.path, url)
    [] L.kind = "route" ->
         ~Threw(ctx.err) /\ RouteMatches(L.path, url) /\ L.method = req.method

\* Router.handle: the layers of the application, or of a mounted router, in order
RECURSIVE RunLayers(_, _, _, _, _, _, _)
RunLayers(stack, i, at, url, ctx, req, inp) ==
  IF i > Len(stack) THEN ctx
  ELSE LET L == stack[i]
       IN IF ~LayerRuns(L, url, req, ctx)
          THEN RunLayers(stack, i + 1, at, url, ctx, req, inp)
          ELSE LET c == CASE L.kind = "use" ->
                               RunFn(L.handlers[1], Append(at, i), ctx, req, inp)
                          [] L.kind = "router" ->
                               RunLayers(L.stack, 1, Append(at, i), Rest(L.path, url),
                                         ctx, req, inp)
                          [] L.kind = "route" ->
                               RunHandlers(L.handlers, 1, Append(at, i), ctx, req, inp)
               IN IF c.flow = "stop" THEN c
                  ELSE RunLayers(stack, i + 1, at, url, c, req, inp)

\* app.handle: the stack, then express's final handler when nothing answered
Handle(stack, req, inp) ==
  LET c == RunLayers(stack, 1, <<>>, req.url, NewCtx, req, inp)
  IN IF c.flow = "stop" THEN c
     ELSE [c EXCEPT !.responses =
                      Append(c.responses,
                             Response("finalhandler", <<>>,
                                      IF Threw(c.err) THEN 500 ELSE 404, "finalhandler")),
                    !.flow = "stop"]

-----------------------------------------------------------------------------
(* The inputs the model draws from *)

A == <<"/", "a">>
G == <<"/", "g">>
U == <<"/", "u">>

BaseRouteArgs == {<<>>, Slash, <<"/", "/">>, <<"a">>, <<"/", "a", "/">>}
UseArgs == {Mw("ma"), ErrMw("eh")}
UseBeforeArgs == {<<>>, <<"mb", "ma">>}
NotFoundArgs == {Undefined, <<"nf">>}
UrlEncodedArgs == {Undefined, <<"extended:false">>}
StaticArgs ==
  { [dirPath |-> Dir("public", FALSE), route |-> Undefined],
    [dirPath |-> Dir("public", FALSE), route |-> <<>>],
    [dirPath |-> Dir("public", FALSE), route |-> <<"p">>],
    [dirPath |-> Dir("/var/www", TRUE), route |-> <<"/", "p">>] }

Plain(cls) == [form |-> "class", cls |-> cls, route |-> Undefined,
               middlewares |-> Undefined, modules |-> <<>>]
Group(route, middlewares, modules) ==
  [form |-> "group", cls |-> "", route |-> route,
   middlewares |-> middlewares, modules |-> modules]
RegLists ==
  { <<Plain("UserModule")>>,
    <<Plain("RootModule"), Plain("UserModule")>>,
    <<Group(G, <<"mg", "ma">>, <<"UserModule">>)>>,
    <<Group(Undefined, <<"mg">>, <<"RootModule">>)>>,
    <<Plain("LooseModule")>>,
    <<Plain("BaseModule"), Plain("SubModule")>>,
    <<Group(Undefined, Undefined, <<"LooseModule">>)>>,
    <<Plain("LooseModule"), Plain("PlainClass")>>,
    <<Plain("BrokenModule")>>,
    <<Group(G, <<"mg">>, <<"UserModule", "PlainClass">>)>>,
    <<Group(G, Undefined, <<"BrokenModule">>)>> }

ShortcutArgs ==
  { [method |-> "get", path |-> U, handlers |-> <<Mw("ma"), Mw("h")>>],
    [method |-> "post", path |-> <<"/", "x">>, handlers |-> <<Mw("h")>>] }

ProxyReads == {"locals", "nope", "listen", "use"}
ProxyCalls ==
  { [name |-> "set", args |-> <<"k", "v">>],
    [name |-> "set", args |-> <<"k">>] }

Req(method, url) == [method |-> method, url |-> url]
Urls == {U, A \o U, G \o U, A \o G \o U, <<"/", "x">>}
Requests == {Req("get", u) : u \in Urls} \cup {Req("post", U), Req("post", <<"/", "x">>)}
\* the user middleware that answers the request itself instead of calling next
\* ("none": every middleware calls next)
Stoppers == {"none", "ma", "mg", "mc", "mr"}
Inputs ==
  [beh : Behaviours, stopper : {"none"}]
    \cup [beh : {Beh("return", "{id:1}", FALSE)}, stopper : Stoppers \ {"none"}]

-----------------------------------------------------------------------------
(* The state machine *)

NoRequest ==
  [served |-> FALSE, req |-> [method |-> "", url |-> <<>>],
   trace |-> <<>>, responses |-> <<>>, err |-> <<>>]

\* the last call made: its name, its receiver, its arguments, and for a
\* registerModules call what the pass did, in order
Op(name, on, args) == [name |-> name, on |-> on, args |-> args, did |-> <<>>]
Returned(value) == [value |-> value, thrown |-> NoError]
Thrown(err) == [value |-> "none", thrown |-> err]

TypeErrorNotAFunction(prop) ==
  <<[error |-> "TypeError", names |-> prop, text |-> "is not a function"]>>

Init ==
  /\ config = ConfigInit
  /\ appStack = <<>>
  /\ container = ContainerInit
  /\ routers = 0
  /\ lastOp = Op("codex", "", <<>>)
  /\ ret = Returned("proxy")
  /\ calls = 0
  /\ listening = FALSE
  /\ last = NoRequest

\* the objects a call can be made on: the proxy codex() returned, and whatever
\* Codex object the previous call of the chain returned
Receivers == {"proxy"} \cup (IF ret.value = "target" THEN {"target"} ELSE {})

\* configuration happens once, at startup, before the server listens
Setup == calls < MaxCalls /\ ~listening

BaseRoute(recv, path) ==
  /\ Setup
  /\ config' = [config EXCEPT !.globalBaseRoute = baseRoute(path)]
  /\ lastOp' = Op("baseRoute", recv, path)
  /\ ret' = Returned(methodReturn(recv))
  /\ calls' = calls + 1
  /\ UNCHANGED <<appStack, container, routers, listening, last>>

Use(recv, fn) ==
  /\ Setup
  /\ appStack' = Append(appStack, UseLayer(fn))
  /\ lastOp' = Op("use", recv, fn)
  /\ ret' = Returned(methodReturn(recv))
  /\ calls' = calls + 1
  /\ UNCHANGED <<config, container, routers, listening, last>>

UseBefore(recv, middlewares) ==
  /\ Setup
  /\ appStack' = appStack \o useBefore(middlewares)
  /\ lastOp' = Op("useBefore", recv, middlewares)
  /\ ret' = Returned(methodReturn(recv))
  /\ calls' = calls + 1
  /\ UNCHANGED <<config, container, routers, listening, last>>

HandleNotFound(recv, handler) ==
  /\ Setup
  /\ appStack' = Append(appStack, handleNotFound(config, handler))
  /\ lastOp' = Op("handleNotFound", recv, handler)
  /\ ret' = Returned(methodReturn(recv))
  /\ calls' = calls + 1
  /\ UNCHANGED <<config, container, routers, listening, last>>

EnableJson(recv) ==
  /\ Setup
  /\ appStack' = appStack \o enableJson(config).use
  /\ config' = enableJson(config).config
  /\ lastOp' = Op("enableJson", recv, <<>>)
  /\ ret' = Returned(methodReturn(recv))
  /\ calls' = calls + 1
  /\ UNCHANGED <<container, routers, listening, last>>

EnableUrlEncoded(recv, options) ==
  /\ Setup
  /\ appStack' = appStack \o enableUrlEncoded(config, options).use
  /\ config' = enableUrlEncoded(config, options).config
  /\ lastOp' = Op("enableUrlEncoded", recv, options)
  /\ ret' = Returned(methodReturn(recv))
  /\ calls' = calls + 1
  /\ UNCHANGED <<container, routers, listening, last>>

ServeStatic(recv, dirPath, route) ==
  /\ Setup
  /\ appStack' = Append(appStack,
                    UseAtLayer(staticMountPath(route),
                               [Builtin("express.static") EXCEPT
                                  !.key = resolvedPath(dirPath)]))
  /\ lastOp' = Op("serveStatic", recv, [dirPath |-> dirPath, route |-> route])
  /\ ret' = Returned(methodReturn(recv))
  /\ calls' = calls + 1
  /\ UNCHANGED <<config, container, routers, listening, last>>

\* (a variant that puts the application back as it was when the pass threw)
Registered_rolledBack(recv, registrations, st) ==
  /\ appStack' = IF Threw(st.thrown) THEN appStack ELSE st.stack
  /\ container' = IF Threw(st.thrown) THEN container ELSE st.container
  /\ routers' = st.routers
  /\ ret' = IF Threw(st.thrown) THEN Thrown(st.thrown)
            ELSE Returned(methodReturn(recv))
  /\ lastOp' = [Op("registerModules", recv, registrations) EXCEPT !.did = st.log]
  /\ calls' = calls + 1
  /\ UNCHANGED <<config, listening, last>>

\* what a registerModules call leaves behind: st is the outcome of the pass
Registered(recv, registrations, st) ==
  /\ appStack' = st.stack
  /\ container' = st.container
  /\ routers' = st.routers
  /\ ret' = IF Threw(st.thrown) THEN Thrown(st.thrown)
            ELSE Returned(methodReturn(recv))
  /\ lastOp' = [Op("registerModules", recv, registrations) EXCEPT !.did = st.log]
  /\ calls' = calls + 1
  /\ UNCHANGED <<config, listening, last>>

\* the state a registerModules pass starts from; typedi is what the installed
\* container does when asked for a class it has no entry for
PassStart(stack, cont, n, typedi) ==
  [stack |-> stack, container |-> cont, routers |-> n, thrown |-> NoError,
   typedi |-> typedi, log |-> <<>>]

RegisterModules(recv, registrations, typedi) ==
  /\ Setup
  /\ Registered(recv, registrations,
                registerModules(PassStart(appStack, container, routers, typedi),
                                registrations, 1, config))

\* one of get, post, put, patch, delete called on the Codex object
Shortcut(recv, a) ==
  /\ Setup
  /\ appStack' = Append(appStack, createHttpMethod(config, a.method, a.path, a.handlers))
  /\ lastOp' = Op("shortcut", recv, a)
  /\ ret' = Returned(shortcutReturn(recv))
  /\ calls' = calls + 1
  /\ UNCHANGED <<config, container, routers, listening, last>>

\* recv[prop] read. On the proxy the get trap answers; on the Codex object
\* itself only its own members are found.
ReadMember(recv, prop) ==
  /\ Setup
  /\ lastOp' = Op("read", recv, prop)
  /\ ret' = LET got == IF recv = "proxy" THEN proxyHandler(prop, recv)
                       ELSE CodexMember(prop)
            IN Returned(got.kind \o ":" \o got.of \o "." \o got.name)
  /\ calls' = calls + 1
  /\ UNCHANGED <<config, appStack, container, routers, listening, last>>

\* recv[name](...args), for a function of Express that Codex does not define
CallMember(recv, c) ==
  /\ Setup
  /\ lastOp' = Op("call", recv, c)
  /\ ret' = LET got == IF recv = "proxy" THEN proxyHandler(c.name, recv)
                       ELSE CodexMember(c.name)
            IN IF got.kind = "forwarder"
               THEN Returned(callForwarder(got.name, c.args, recv))
               ELSE Thrown(TypeErrorNotAFunction(c.name))
  /\ calls' = calls + 1
  /\ UNCHANGED <<config, appStack, container, routers, listening, last>>

\* recv.listen(port): forwarded to Express when made on the proxy, and the
\* server starts; the Codex object itself has no listen
ListenArgs == <<"3000">>
Listen(recv) ==
  /\ ~listening
  /\ lastOp' = Op("call", recv, [name |-> "listen", args |-> ListenArgs])
  /\ LET got == IF recv = "proxy" THEN proxyHandler("listen", recv)
                ELSE CodexMember("listen")
     IN IF got.kind = "forwarder"
        THEN /\ ret' = Returned(callForwarder(got.name, ListenArgs, recv))
             /\ listening' = (ret'.value = "server")
        ELSE /\ ret' = Thrown(TypeErrorNotAFunction("listen"))
             /\ listening' = FALSE
  /\ UNCHANGED <<config, appStack, container, routers, calls, last>>

\* the outcome c of a request kept for inspection
Served(req, c) ==
  last' = [served |-> TRUE, req |-> req, trace |-> c.trace,
           responses |-> c.responses, err |-> c.err]

\* one request served by the application as configured
Dispatch(req, inp) ==
  /\ listening
  /\ ~last.served
  /\ Served(req, Handle(appStack, req, inp))
  /\ UNCHANGED <<config, appStack, container, routers, lastOp, ret, calls, listening>>

Next ==
  \/ \E recv \in Receivers, path \in BaseRouteArgs : BaseRoute(recv, path)
  \/ \E recv \in Receivers, fn \in UseArgs : Use(recv, fn)
  \/ \E recv \in Receivers, mws \in UseBeforeArgs : UseBefore(recv, mws)
  \/ \E recv \in Receivers, h \in NotFoundArgs : HandleNotFound(recv, h)
  \/ \E recv \in Receivers : EnableJson(recv)
  \/ \E recv \in Receivers, o \in UrlEncodedArgs : EnableUrlEncoded(recv, o)
  \/ \E recv \in Receivers, a \in StaticArgs : ServeStatic(recv, a.dirPath, a.route)
  \/ \E recv \in Receivers, regs \in RegLists, typedi \in TypediBuilds :
        RegisterModules(recv, regs, typedi)
  \/ \E recv \in Receivers, a \in ShortcutArgs : Shortcut(recv, a)
  \/ \E recv \in Receivers, prop \in ProxyReads : ReadMember(recv, prop)
  \/ \E recv \in Receivers, c \in ProxyCalls : CallMember(recv, c)
  \/ \E recv \in Receivers : Listen(recv)
  \/ \E req \in Requests, inp \in Inputs : Dispatch(req, inp)

Spec == Init /\ [][Next]_vars

-----------------------------------------------------------------------------
(* Properties of the wrapper (createHandler) *)

TraceIdx == 1..Len(last.trace)
WrappedRuns == {k \in TraceIdx : last.trace[k].fn.type = "wrapped"}
\* the responses the wrapper's res.json produced for the invocation at `at`
JsonResponsesAt(at) ==
  {r \in 1..Len(last.responses) :
     last.responses[r].by = "res.json" /\ last.responses[r].at = at}

\* the case of C1: the method returned a value other than undefined and the
\* headers were not sent when the wrapper tested
ReturnedValue(e) == e.beh.kind = "return" /\ e.beh.val # "undefined" /\ ~e.sentAtTest

\* C1 as stated: for every request dispatched to a controller route whose
\* method returns or resolves to a value other than undefined while the headers
\* are not sent, the wrapper sends exactly that value with res.json exactly
\* once and does not call next.
C1_AnyValueIsSent ==
  \A k \in WrappedRuns :
    LET e == last.trace[k]
    IN ReturnedValue(e) =>
         /\ e.json = <<e.beh.val>>
         /\ e.next = <<>>
         /\ \E r \in JsonResponsesAt(e.at) :
              /\ JsonResponsesAt(e.at) = {r}
              /\ last.responses[r].body = e.beh.val

\* C1 as amended: under the same condition the wrapper calls res.json exactly
\* once, with exactly that value (null, false, 0 and '' included). When res.json
\* accepts the value, that is the one JSON response and the wrapper does not
\* call next; when res.json throws (a value JSON cannot serialise), nothing is
\* sent and the wrapper calls next once with the error res.json threw.
C1_ValueIsSentOrJsonErrorForwarded ==
  \A k \in WrappedRuns :
    LET e == last.trace[k]
    IN ReturnedValue(e) =>
         /\ e.json = <<e.beh.val>>
         /\ IF Serialisable(e.beh.val)
            THEN /\ e.next = <<>>
                 /\ \E r \in JsonResponsesAt(e.at) :
                      /\ JsonResponsesAt(e.at) = {r}
                      /\ last.responses[r].body = e.beh.val
            ELSE /\ e.next = <<"TypeError">>
                 /\ JsonResponsesAt(e.at) = {}

\* a request whose handler returned the falsy value null, sent as JSON
C1_Witness ==
  \E k \in WrappedRuns :
    /\ ReturnedValue(last.trace[k])
    /\ last.trace[k].beh.val = "null"
    /\ last.trace[k].json = <<"null">>
    /\ JsonResponsesAt(last.trace[k].at) # {}

\* the error-handling middleware layers of the application after layer i
ErrorLayersAfter(i) ==
  {x \in (i + 1)..Len(appStack) :
     appStack[x].kind = "use" /\ appStack[x].handlers[1].type = "errorHandler"}
Min(S) == CHOOSE x \in S : \A y \in S : x <= y

\* C2: when the controller method throws or its promise rejects, the wrapper
\* calls next exactly once with that same error and sends no JSON response,
\* and the error reaches an error-handling middleware added with use() after
\* the registration (the first such middleware is called with that error).
C2_ErrorIsForwarded ==
  \A k \in WrappedRuns :
    LET e == last.trace[k]
    IN e.beh.kind \in {"throw", "reject"} =>
         /\ e.next = <<e.beh.val>>
         /\ e.json = <<>>
         /\ JsonResponsesAt(e.at) = {}
         /\ ErrorLayersAfter(e.at[1]) # {} =>
              \E k2 \in TraceIdx :
                /\ k2 > k
                /\ last.trace[k2].at = <<Min(ErrorLayersAfter(e.at[1]))>>
                /\ last.trace[k2].fn.type = "errorHandler"
                /\ last.trace[k2].got = <<e.beh.val>>

\* a rejected promise whose error was handed to the error middleware
C2_Witness ==
  \E k \in WrappedRuns, k2 \in TraceIdx :
    /\ last.trace[k].beh.kind = "reject"
    /\ k2 > k
    /\ last.trace[k2].fn = ErrMw("eh")
    /\ last.trace[k2].got = <<"boom">>

\* C3: when the controller method returns or resolves to undefined, or the
\* headers were already sent when it returns, the wrapper calls neither
\* res.json nor next, so no response of the request comes from the wrapper;
\* when the method did not pass the request on, the only response is the one
\* the method itself produced.
C3_ManualResponseControl ==
  \A k \in WrappedRuns :
    LET e == last.trace[k]
    IN (e.beh.kind \in {"return", "pass"} /\ (e.beh.val = "undefined" \/ e.sentAtTest)) =>
         /\ e.json = <<>>
         /\ e.next = <<>>
         /\ JsonResponsesAt(e.at) = {}
         /\ e.beh.kind = "return" =>
              \A r \in 1..Len(last.responses) :
                last.responses[r].by = "handler" /\ last.responses[r].at = e.at

\* a method that answered the request itself and then returned a value
C3_Witness ==
  \E k \in WrappedRuns :
    /\ last.trace[k].beh = Beh("return", "{id:1}", TRUE)
    /\ last.trace[k].sentAtTest
    /\ last.trace[k].json = <<>>
    /\ Len(last.responses) = 1

-----------------------------------------------------------------------------
(* Properties of the configuration calls *)

Range(seq) == {seq[i] : i \in 1..Len(seq)}
AddedLayers == (Len(appStack) + 1)..Len(appStack')
OldLayersKept == SubSeq(appStack', 1, Len(appStack)) = appStack

\* p with a leading slash put in front when it has none and every trailing
\* slash removed, said without the code's steps: q is that prefix when the
\* slash-led p is q followed by slashes only and q does not end in a slash
IsNormalisedPrefixOf(q, p) ==
  LET led == IF StartsWithSlash(p) THEN p ELSE Slash \o p
  IN /\ IsPrefix(q, led)
     /\ \A i \in (Len(q) + 1)..Len(led) : led[i] = "/"
     /\ (Len(q) > 0 => q[Len(q)] # "/")

IsRoutingLayer(L) == L.kind \in {"router", "route"}

GivenAsModule(regs) ==
  UNION {IF regs[i].form = "class" THEN {regs[i].cls} ELSE Range(regs[i].modules) :
           i \in 1..Len(regs)}
ListedControllers(mod) ==
  IF Len(DecoratedMeta[mod].module) = 0 THEN {}
  ELSE LET cs == DecoratedMeta[mod].module[1].controllers
       IN IF cs = Undefined THEN {} ELSE Range(cs)
ModuleOffenders(regs) ==
  {c \in GivenAsModule(regs) : Len(DecoratedMeta[c].module) = 0}
ControllerOffenders(regs) ==
  {c \in UNION {ListedControllers(m) : m \in GivenAsModule(regs)} :
     Len(DecoratedMeta[c].controller) = 0}
MountedFor(c) ==
  {i \in 1..Len(appStack) :
     appStack[i].kind = "router" /\ appStack[i].origin.controller = c}

\* C7: registerModules throws an Error that names the class whenever a class
\* given as a module (plain or inside a group) lacks @Module, and whenever a
\* class listed in a module's controllers lacks @Controller; no router is
\* mounted for the offending class and no instance of it is fetched from the
\* container.
C7_MissingAnnotationFails ==
  lastOp.name = "registerModules" =>
    LET mo == ModuleOffenders(lastOp.args)
        co == ControllerOffenders(lastOp.args)
    IN (mo \cup co # {}) =>
         /\ Threw(ret.thrown)
         /\ \/ \E c \in mo :
                 ret.thrown = <<[error |-> "Error", names |-> c,
                                 text |-> "is missing @Module() metadata."]>>
            \/ \E c \in co :
                 /\ ret.thrown[1].error = "Error"
                 /\ ret.thrown[1].names = c
                 /\ ret.thrown[1].text =
                      "is missing @Controller decorator. Did you forget to add @Controller() to the class?"
         /\ \A c \in mo \cup co : MountedFor(c) = {} /\ container[c].state # "instance"

\* a module whose second controller is undecorated: the first one is mounted,
\* then the pass fails naming the second
C7_Witness ==
  /\ lastOp.name = "registerModules"
  /\ Threw(ret.thrown)
  /\ ret.thrown[1].names = "PlainClass"
  /\ "PlainClass" \in ControllerOffenders(lastOp.args)
  /\ MountedFor("UserController") # {}

\* C8: a name the Codex object does not have, read on the proxy, gives what
\* the Express application has under that name; when that is a function,
\* calling it applies the Express function to the application with the same
\* arguments and returns its result, the application replaced by the proxy.
C8_ProxyForwards ==
  lastOp.on = "proxy" =>
    /\ (lastOp.name = "read" /\ lastOp.args \notin CodexMembers) =>
         ret = Returned(
                 IF lastOp.args \in ExpressFunctions
                   THEN "forwarder:app." \o lastOp.args
                 ELSE IF lastOp.args \in ExpressValues
                   THEN "value:app." \o lastOp.args
                 ELSE "undefined:.")
    /\ (lastOp.name = "call" /\ lastOp.args.name \notin CodexMembers
                             /\ lastOp.args.name \in ExpressFunctions) =>
         LET result == ExpressCall(lastOp.args.name, "app", lastOp.args.args)
         IN ret = Returned(IF result = "app" THEN "proxy" ELSE result)

\* app.set(k, v) made through the proxy came back as the proxy
C8_Witness ==
  /\ lastOp = Op("call", "proxy", [name |-> "set", args |-> <<"k", "v">>])
  /\ ret = Returned("proxy")

Chainable ==
  {"baseRoute", "use", "useBefore", "enableJson", "enableUrlEncoded", "serveStatic",
   "registerModules", "handleNotFound", "shortcut"}

\* C9: after any sequence of chainable calls on the object codex() returned,
\* the value the last call returned is that same proxied Codex object.
C9_ChainReturnsProxy ==
  (lastOp.name \in Chainable /\ ~Threw(ret.thrown)) => ret.value = "proxy"

\* the controllers a registration list wires, in the order of the pass, each
\* with the route of its group ('' for a plain module or a group without route)
ControllerSeq(mod) ==
  IF Len(DecoratedMeta[mod].module) = 0 THEN <<>>
  ELSE LET cs == DecoratedMeta[mod].module[1].controllers
       IN IF cs = Undefined THEN <<>> ELSE cs
WiredBy(mod, prefix, form) ==
  [k \in 1..Len(ControllerSeq(mod)) |->
     [controller |-> ControllerSeq(mod)[k], prefix |-> prefix, form |-> form]]
RECURSIVE WiredByModules(_, _, _)
WiredByModules(modules, i, prefix) ==
  IF i > Len(modules) THEN <<>>
  ELSE WiredBy(modules[i], prefix, "group") \o WiredByModules(modules, i + 1, prefix)
RECURSIVE Wired(_, _)
Wired(regs, i) ==
  IF i > Len(regs) THEN <<>>
  ELSE (IF regs[i].form = "class" THEN WiredBy(regs[i].cls, <<>>, "plain")
        ELSE WiredByModules(regs[i].modules, 1,
                            IF regs[i].route = Undefined THEN <<>> ELSE regs[i].route))
       \o Wired(regs, i + 1)
BasePathOf(c) ==
  IF Len(DecoratedMeta[c].controller) = 0 THEN <<>> ELSE DecoratedMeta[c].controller[1]

\* C10: a registerModules call adds, for each controller it wires and in the
\* order of the pass, exactly one router that did not exist before, mounted at
\* globalBaseRoute + base path (plain form) or globalBaseRoute + group route +
\* base path (grouped form), with globalBaseRoute as it is when the call runs
\* and a missing group route or base path counting as ''; a pass that ends
\* normally wires every controller of every registered module (a pass that
\* throws may leave behind one router it made and did not mount).
C10_OneRouterPerController ==
  [][ (calls' = calls + 1 /\ lastOp'.name = "registerModules") =>
        LET wired == Wired(lastOp'.args, 1)
            added == SubSeq(appStack', Len(appStack) + 1, Len(appStack'))
        IN /\ OldLayersKept
           /\ Len(added) <= Len(wired)
           /\ ~Threw(ret'.thrown) => Len(added) = Len(wired)
           /\ routers' \in {routers + Len(added), routers + Len(added) + 1}
           /\ ~Threw(ret'.thrown) => routers' = routers + Len(added)
           /\ \A k \in 1..Len(added) :
                /\ added[k].kind = "router"
                /\ added[k].id = routers + k
                /\ added[k].origin.controller = wired[k].controller
                /\ added[k].origin.form = wired[k].form
                /\ added[k].path =
                     config.globalBaseRoute \o wired[k].prefix
                       \o BasePathOf(wired[k].controller) ]_vars

\* a grouped registration under the base route /a: the router sits at /a/g/u
C10_Witness ==
  \E i \in 1..Len(appStack) :
    /\ appStack[i].kind = "router"
    /\ appStack[i].origin.form = "group"
    /\ appStack[i].path = A \o G \o U
    /\ config.globalBaseRoute = A

-----------------------------------------------------------------------------
(* Properties of a dispatched request *)

ControllerMiddlewaresOf(c) ==
  IF Len(DecoratedMeta[c].middlewares) = 0 THEN <<>> ELSE DecoratedMeta[c].middlewares[1]
RoutesOf(c) ==
  IF Len(DecoratedMeta[c].routes) = 0 THEN <<>> ELSE DecoratedMeta[c].routes[1]

Step(at, name, key) == [at |-> at, name |-> name, key |-> key]
Steps(at, names) == [n \in 1..Len(names) |-> Step(Append(at, n), names[n], "")]
StepsFrom(at, offset, names) ==
  [n \in 1..Len(names) |-> Step(Append(at, offset + n), names[n], "")]

\* the middleware the user put on the application with use()/useBefore(), in
\* layers x..(i-1)
RECURSIVE AppLevelBefore(_, _)
AppLevelBefore(x, i) ==
  IF x >= i THEN <<>>
  ELSE (IF appStack[x].kind = "use" /\ appStack[x].handlers[1].type = "function"
        THEN <<Step(<<x>>, appStack[x].handlers[1].name, "")>>
        ELSE <<>>) \o AppLevelBefore(x + 1, i)

\* what the documentation promises to run, in order, for the handler that
\* ran at position <<i, j, h>> of a grouped registration
PromisedOrder(at) ==
  LET L == appStack[at[1]]
      g == L.origin.groupMiddlewares
      c == ControllerMiddlewaresOf(L.origin.controller)
      route == RoutesOf(L.origin.controller)[at[2] - Len(g) - Len(c)]
  IN AppLevelBefore(1, at[1])
       \o Steps(<<at[1]>>, g)
       \o StepsFrom(<<at[1]>>, Len(g), c)
       \o Steps(<<at[1], at[2]>>, route.middlewares)
       \o <<Step(at, "createHandler", route.handler)>>

StepOf(t) == Step(t.at, t.fn.name, t.fn.key)
\* the promised functions among those that ran up to the k-th, as they ran
ObservedOrder(k, promised) ==
  LET ran == SelectSeq(SubSeq(last.trace, 1, k),
                       LAMBDA t : \E n \in 1..Len(promised) : promised[n].at = t.at)
  IN [n \in 1..Len(ran) |-> StepOf(ran[n])]

GroupedRuns ==
  {k \in WrappedRuns : appStack[last.trace[k].at[1]].origin.form = "group"}

\* C5: for a request that reaches the handler of a controller registered in
\* the grouped form, the functions that ran are, in this order and each list
\* in its declared order: the application-level middleware added with
\* use()/useBefore() before the registration, the group's middlewares, the
\* controller's middlewares, the route's middlewares, the wrapped handler;
\* and each of them but the handler called next.
C5_MiddlewareOrder ==
  \A k \in GroupedRuns :
    LET promised == PromisedOrder(last.trace[k].at)
    IN /\ ObservedOrder(k, promised) = promised
       /\ \A k2 \in 1..(k - 1) : last.trace[k2].ownNext

\* use(ma), then the group /g with [mg, ma] around UserController ([mc]) whose
\* GET / has [mr]: the request ran ma, mg, ma, mc, mr and the handler
C5_Witness ==
  \E k \in GroupedRuns :
    /\ k = 6
    /\ [n \in 1..6 |-> last.trace[n].fn.name]
         = <<"ma", "mg", "ma", "mc", "mr", "createHandler">>
    /\ last.trace[1].at = <<1>>
    /\ last.trace[6].fn.key = "list"

NotFoundLayers ==
  {n \in 1..Len(appStack) :
     appStack[n].kind = "use" /\ appStack[n].handlers[1] \in {DefaultNotFound, Mw("nf")}}
\* the routes of controllers registered before layer n that match the request
ControllerMatches(n, req) ==
  {ij \in UNION {{<<i, j>> : j \in 1..Len(appStack[i].stack)} : i \in 1..(n - 1)} :
     LET L == appStack[ij[1]]
     IN /\ L.kind = "router"
        /\ MountMatches(L.path, req.url)
        /\ L.stack[ij[2]].kind = "route"
        /\ L.stack[ij[2]].method = req.method
        /\ RouteMatches(L.stack[ij[2]].path, Rest(L.path, req.url))}
\* the shortcut routes registered before layer n that match the request
ShortcutMatches(n, req) ==
  {i \in 1..(n - 1) :
     /\ appStack[i].kind = "route"
     /\ appStack[i].method = req.method
     /\ RouteMatches(appStack[i].path, req.url)}
RouteOf(at) == <<at[1], at[2]>>
ResponseIdx == 1..Len(last.responses)

\* the answer handleNotFound promises at layer n
IsNotFoundAnswer(r, n) ==
  /\ r.at = <<n>>
  /\ IF appStack[n].handlers[1] = DefaultNotFound
     THEN /\ r.status = 404
          /\ r.body = [status |-> "fail", message |-> last.req.url \o <<" not found">>]
     ELSE r.by = "nf"

\* every function that ran in a layer before n, the controller methods aside,
\* called next
OthersPassedBefore(n) ==
  \A k \in TraceIdx :
    (last.trace[k].fn.type # "wrapped" /\ last.trace[k].at[1] < n) => last.trace[k].ownNext
\* the method answered: it responded itself, or returned a value res.json accepts
MethodAnswered(e) ==
  /\ e.beh.kind = "return"
  /\ e.beh.sends \/ (e.beh.val # "undefined" /\ Serialisable(e.beh.val))

\* no controller method handed the request on by calling next itself
NoMethodPassedOn == \A k \in WrappedRuns : ~last.trace[k].ownNext

\* C6: with handleNotFound() called after registerModules,
\*  - a request that matches a registered controller route is never taken by
\*    the not-found handler (the route's method not handing it on itself), and
\*    it reaches that route's method when the middleware before it call next;
\*    when the method answers (it responds itself or returns a value res.json
\*    accepts) that is the only answer of the request;
\*  - a request that matches no registered route, the middleware before the
\*    not-found handler calling next, is answered by the not-found handler and
\*    by nothing else: with no handler argument by status 404 and the JSON body
\*    {status: 'fail', message: '<originalUrl> not found'}, and with a handler
\*    argument by that handler.
C6_RouteBeforeNotFound ==
  last.served =>
    \A n \in NotFoundLayers :
      LET m == ControllerMatches(n, last.req)
      IN /\ (m # {} /\ NoMethodPassedOn) =>
              /\ \A k \in TraceIdx : last.trace[k].at # <<n>>
              /\ \A r \in ResponseIdx : last.responses[r].at # <<n>>
         /\ (m # {} /\ OthersPassedBefore(n)) =>
              \E k \in WrappedRuns :
                /\ RouteOf(last.trace[k].at) \in m
                /\ \A k0 \in WrappedRuns : k <= k0
                /\ MethodAnswered(last.trace[k]) =>
                     /\ Len(last.responses) = 1
                     /\ last.responses[1].by \in {"res.json", "handler"}
                     /\ last.responses[1].at = last.trace[k].at
         /\ (m = {} /\ ShortcutMatches(n, last.req) = {} /\ OthersPassedBefore(n)) =>
              /\ Len(last.responses) = 1
              /\ IsNotFoundAnswer(last.responses[1], n)

\* a controller is registered, then handleNotFound(): its route answered one
\* request with the method's value
C6_WitnessRoute ==
  /\ last.served
  /\ \E n \in NotFoundLayers :
       /\ ControllerMatches(n, last.req) # {}
       /\ Len(last.responses) = 1
       /\ last.responses[1].by = "res.json"
       /\ RouteOf(last.responses[1].at) \in ControllerMatches(n, last.req)

\* a controller is registered, then handleNotFound(): a request for a path no
\* route has got the default 404 answer
C6_Witness ==
  /\ last.served
  /\ \E n \in NotFoundLayers :
       /\ appStack[n].handlers[1] = DefaultNotFound
       /\ \E i \in 1..(n - 1) : appStack[i].kind = "router"
       /\ ControllerMatches(n, last.req) = {}
       /\ Len(last.responses) = 1
       /\ last.responses[1].status = 404
       /\ IsNotFoundAnswer(last.responses[1], n)

-----------------------------------------------------------------------------
(* The two forms of a registration *)

Modules == {c \in Classes : isModule(c)}

\* what a pass leaves behind, the bookkeeping of which branch mounted a
\* router left out
WithoutForm(stack) ==
  [i \in 1..Len(stack) |->
     IF stack[i].kind = "router"
     THEN [stack[i] EXCEPT !.origin = [@ EXCEPT !.form = ""]]
     ELSE stack[i]]
Outcome(st) ==
  [stack |-> WithoutForm(st.stack), container |-> st.container, thrown |-> st.thrown]
PlainOutcome(M, typedi) ==
  Outcome(registerModules(PassStart(appStack, container, routers, typedi),
                          <<Plain(M)>>, 1, config))
GroupedOutcome(M, typedi) ==
  Outcome(registerModules(PassStart(appStack, container, routers, typedi),
                          <<Group(Undefined, Undefined, <<M>>)>>, 1, config))

\* C11: from any state of the application, registerModules([M]) and
\* registerModules([{modules: [M]}]) leave the same routers at the same mount
\* paths with the same chains and handlers and the same container entries,
\* also when a provider of M is not yet known to the container.
C11_PlainAndGroupedAgree ==
  \A M \in Modules, typedi \in TypediBuilds :
    PlainOutcome(M, typedi) = GroupedOutcome(M, typedi)

-----------------------------------------------------------------------------
(* Providers *)

ListedProviders(mod) ==
  IF Len(DecoratedMeta[mod].module) = 0 THEN {}
  ELSE LET ps == DecoratedMeta[mod].module[1].providers
       IN IF ps = Undefined THEN {} ELSE Range(ps)
ProvidersOf(regs) == UNION {ListedProviders(m) : m \in GivenAsModule(regs)}

\* C12: after a registerModules call that returns normally, every class listed
\* in the providers of every registered module has an entry in the container,
\* in the plain and in the grouped form; the entry of a provider the container
\* already held before the call is the one it held, and no provider is built
\* by registration more than once.
C12_ProvidersPresentAndKept ==
  [][(lastOp'.name = "registerModules" /\ calls' = calls + 1 /\ ~Threw(ret'.thrown)) =>
       \A p \in ProvidersOf(lastOp'.args) :
         /\ ContainerHas(container', p)
         /\ ContainerHas(container, p) => container'[p] = container[p]
         /\ container'[p].made <= 1]_vars

\* LooseModule registered in the grouped form after a plain registration built
\* its undecorated provider: the instance the plain registration made is there
C12_Witness ==
  /\ lastOp.name = "registerModules"
  /\ ~Threw(ret.thrown)
  /\ lastOp.args = <<Group(Undefined, Undefined, <<"LooseModule">>)>>
  /\ "PlainService" \in ProvidersOf(lastOp.args)
  /\ container["PlainService"] = [state |-> "instance", made |-> 1, by |-> "new"]

-----------------------------------------------------------------------------
(* Controller instances *)

\* the wrapped handlers of the routers mounted on the application, each with
\* the class its router was made for
WrappedHandlers ==
  UNION {UNION {{[fn |-> appStack[i].stack[j].handlers[k],
                  controller |-> appStack[i].origin.controller] :
                   k \in {n \in 1..Len(appStack[i].stack[j].handlers) :
                            appStack[i].stack[j].handlers[n].type = "wrapped"}} :
                 j \in 1..Len(appStack[i].stack)} :
           i \in {n \in 1..Len(appStack) : appStack[n].kind = "router"}}

\* the one instance of class c the container holds
Singleton(c) == [cls |-> c, no |-> container[c].made]

\* C13: however many registerModules calls were made and however often a
\* controller class was registered, every wrapped route handler of the class
\* closes over the one instance the container holds, and a request dispatched
\* to it calls the route's method on that instance (this) with (req, res, next).
C13_ControllersAreSingletons ==
  /\ \A h \in WrappedHandlers :
       /\ h.fn.inst = h.controller
       /\ container[h.controller].state = "instance"
       /\ container[h.controller].made = 1
       /\ [cls |-> h.fn.inst, no |-> h.fn.no] = Singleton(h.controller)
  /\ last.served =>
       \A k \in WrappedRuns :
         /\ last.trace[k].call.this = Singleton(last.trace[k].fn.inst)
         /\ last.trace[k].call.key = last.trace[k].fn.key
         /\ last.trace[k].call.args = <<"req", "res", "next">>
         /\ \E h \in WrappedHandlers : h.fn = last.trace[k].fn

\* UserController registered by two registerModules calls, its method invoked
\* for a request
C13_Witness ==
  /\ last.served
  /\ Cardinality(MountedFor("UserController")) = 2
  /\ \E k \in WrappedRuns :
       /\ last.trace[k].fn.inst = "UserController"
       /\ last.trace[k].call.this = [cls |-> "UserController", no |-> 1]

-----------------------------------------------------------------------------
(* Route metadata *)

HttpMethods == {"get", "post", "put", "patch", "delete"}
Descriptor(method, path, handler, middlewares) ==
  [method |-> method, path |-> path, handler |-> handler, middlewares |-> middlewares]

\* the route decorators as written on the classes, top to bottom
WrittenRoutes ==
  [c \in Classes |->
     CASE c = "UserController" ->
            <<Descriptor("get", Slash, "list", <<"mr">>),
              Descriptor("post", Slash, "create", <<>>)>>
       [] c = "RootController" -> <<Descriptor("get", <<"/", "u">>, "shadow", <<>>)>>
       [] OTHER -> <<>>]
\* the classes that neither extend a class nor are extended
Standalone ==
  {c \in Classes : Extends[c] = "" /\ \A d \in Classes : Extends[d] # c}

\* metadata stores a route decorator may find: nothing yet, a class with one
\* route, the classes of the application
MetaStates ==
  {EmptyMeta,
   RouteDecorator("get", Slash, <<"mr">>, "UserController", "list", EmptyMeta),
   DecoratedStore}

\* one application of a route decorator appends one descriptor, the defaults
\* filled in, to the list the class has
AppendsOneDescriptor ==
  \A meta \in MetaStates, method \in HttpMethods,
     path \in {Undefined, Slash, <<"/", "x">>},
     middlewares \in {Undefined, <<>>, <<"mr", "ma">>},
     target \in {"UserController", "PlainClass", "SubController"},
     key \in {"list", "other"} :
    LET before == IF hasMetadata(meta, "routes", target)
                  THEN getMetadata(meta, "routes", target)[1] ELSE <<>>
        after == RouteDecorator(method, path, middlewares, target, key, meta)
    IN /\ hasMetadata(after, "routes", target)
       /\ getMetadata(after, "routes", target)[1] =
            Append(before,
                   Descriptor(method,
                              IF path = Undefined THEN Slash ELSE path,
                              key,
                              IF middlewares = Undefined THEN <<>> ELSE middlewares))

\* the route layers of a router, in the order they were added
IsRoute(L) == L.kind = "route"
RoutesOn(router) == SelectSeq(router.stack, IsRoute)
\* what registering one descriptor on a router of class c adds
RegisteredAs(r, c) ==
  [kind |-> "route", path |-> r.path, method |-> r.method,
   handlers |-> [k \in 1..(Len(r.middlewares) + 1) |->
                   IF k <= Len(r.middlewares)
                   THEN [type |-> "function", name |-> r.middlewares[k],
                         inst |-> "", no |-> 0, key |-> ""]
                   ELSE [type |-> "wrapped", name |-> "createHandler",
                         inst |-> c, no |-> 1, key |-> r.handler]],
   stack |-> <<>>, id |-> 0, origin |-> NoOrigin]

\* C14: each application of a route decorator appends exactly one descriptor
\* (verb, path defaulting to '/', method key, middlewares defaulting to none)
\* to the route list of the class; the lists read back are the decorators as
\* written (for a class that neither extends a class nor is extended); and
\* every router registerModules mounts for a controller carries exactly the
\* descriptors of the class's list as routes, once each, in that order, with
\* the verb, path and middlewares recorded and the wrapped method last.
C14_RoutesReadBackUnchanged ==
  /\ AppendsOneDescriptor
  /\ \A c \in Standalone : RoutesOf(c) = WrittenRoutes[c]
  /\ \A i \in 1..Len(appStack) :
       appStack[i].kind = "router" =>
         LET c == appStack[i].origin.controller
         IN /\ Len(RoutesOn(appStack[i])) = Len(RoutesOf(c))
            /\ \A k \in 1..Len(RoutesOf(c)) :
                 RoutesOn(appStack[i])[k] = RegisteredAs(RoutesOf(c)[k], c)

\* UserController's router is mounted with its two routes, get / behind mr
\* and post /
C14_Witness ==
  /\ lastOp.name = "registerModules"
  /\ \E i \in MountedFor("UserController") :
       /\ Len(RoutesOn(appStack[i])) = 2
       /\ RoutesOn(appStack[i])[1].method = "get"
       /\ RoutesOn(appStack[i])[1].handlers[1].name = "mr"
       /\ RoutesOn(appStack[i])[2].handlers[1].key = "create"

-----------------------------------------------------------------------------
(* Body parsers *)

\* the positions of the application's layers that hold the named parser
ParserLayers(stack, name) ==
  {i \in 1..Len(stack) :
     /\ stack[i].kind = "use"
     /\ stack[i].handlers[1].type = "builtin"
     /\ stack[i].handlers[1].name = name}

\* C15: the application holds at most one JSON body parser and at most one
\* URL-encoded body parser, each where the first call of its method put it;
\* the first enableJson / enableUrlEncoded call appends the parser (with the
\* options given, { extended: true } when none are) and every later call
\* changes neither the application nor the configuration, whatever its options.
C15_ParsersInstalledOnce ==
  [][/\ Cardinality(ParserLayers(appStack', "express.json")) <= 1
     /\ Cardinality(ParserLayers(appStack', "express.urlencoded")) <= 1
     /\ \A i \in ParserLayers(appStack, "express.json")
                   \cup ParserLayers(appStack, "express.urlencoded") :
          i <= Len(appStack') /\ appStack'[i] = appStack[i]
     /\ (calls' = calls + 1 /\ lastOp'.name = "enableJson") =>
          IF ParserLayers(appStack, "express.json") = {}
          THEN /\ appStack' = Append(appStack, UseLayer(Builtin("express.json")))
               /\ config' = [config EXCEPT !.jsonEnabled = TRUE]
          ELSE appStack' = appStack /\ config' = config
     /\ (calls' = calls + 1 /\ lastOp'.name = "enableUrlEncoded") =>
          IF ParserLayers(appStack, "express.urlencoded") = {}
          THEN /\ Len(appStack') = Len(appStack) + 1
               /\ SubSeq(appStack', 1, Len(appStack)) = appStack
               /\ appStack'[Len(appStack')].handlers[1].name = "express.urlencoded"
               /\ appStack'[Len(appStack')].handlers[1].key =
                    (IF lastOp'.args = Undefined THEN "extended:true"
                     ELSE lastOp'.args[1])
               /\ config' = [config EXCEPT !.urlEncodedEnabled = TRUE]
          ELSE appStack' = appStack /\ config' = config]_vars

\* a second enableUrlEncoded call, with other options than the first: the
\* parser of the first call is the only one
C15_Witness ==
  /\ lastOp.name = "enableUrlEncoded"
  /\ lastOp.args = <<"extended:false">>
  /\ calls = 2
  /\ \E i \in ParserLayers(appStack, "express.urlencoded") :
       appStack[i].handlers[1].key = "extended:true"

-----------------------------------------------------------------------------
(* useBefore *)

\* the positions where a useBefore([mb, ma]) call put its first layer (mb is
\* given to no other call)
UseBeforeAt(stack) ==
  {i \in 1..(Len(stack) - 1) :
     /\ stack[i].kind = "use" /\ stack[i].handlers[1] = Mw("mb")
     /\ stack[i + 1].kind = "use" /\ stack[i + 1].handlers[1] = Mw("ma")}

\* the runs of route handlers in the trace of request l: a wrapped controller
\* method, or a handler of a shortcut route
HandlerRuns(l, stack) ==
  {k \in 1..Len(l.trace) :
     \/ l.trace[k].fn.type = "wrapped"
     \/ stack[l.trace[k].at[1]].kind = "route"}

\* the two middlewares of the useBefore call at i ran, in list order, before
\* the k-th function of the trace
RanInOrderBefore(l, i, k) ==
  \E a, b \in 1..(k - 1) :
    /\ a < b
    /\ l.trace[a].at = <<i>> /\ l.trace[a].fn = Mw("mb")
    /\ l.trace[b].at = <<i + 1>> /\ l.trace[b].fn = Mw("ma")

-----------------------------------------------------------------------------
(* The HTTP method shortcuts *)

\* the route app[verb](path, ...handlers) puts on the Express application
AppRoute(verb, path, handlers) ==
  [kind |-> "route", path |-> path, method |-> verb, handlers |-> handlers,
   stack |-> <<>>, id |-> 0, origin |-> NoOrigin]

\* each of the five shortcuts makes one route of its own verb, at the base
\* route followed by the path, with the handlers as given
ShortcutOfEveryVerb ==
  \A verb \in HttpMethods, base \in {<<>>, A}, path \in {Slash, U},
     handlers \in {<<Mw("h")>>, <<Mw("ma"), Mw("h")>>, <<Mw("h"), Mw("ma")>>} :
    createHttpMethod([ConfigInit EXCEPT !.globalBaseRoute = base], verb, path, handlers)
      = AppRoute(verb, base \o path, handlers)

\* C17: a shortcut call adds to the Express application exactly one route, of
\* the shortcut's verb, at globalBaseRoute (as it is when the call is made)
\* followed by the path, holding the given handlers in the given order; it
\* changes no other layer, nor the configuration, the container or the routers.
C17_ShortcutRegistersRoute ==
  [][(calls' = calls + 1 /\ lastOp'.name = "shortcut") =>
       /\ ShortcutOfEveryVerb
       /\ appStack' = Append(appStack,
                        AppRoute(lastOp'.args.method,
                                 config.globalBaseRoute \o lastOp'.args.path,
                                 lastOp'.args.handlers))
       /\ UNCHANGED <<config, container, routers, listening, last>>]_vars

\* get('/u', ma, h) called after baseRoute('a'): the route is at /a/u with both
\* handlers
C17_Witness ==
  /\ lastOp.name = "shortcut"
  /\ config.globalBaseRoute = A
  /\ Len(appStack) = 1
  /\ appStack[1] = AppRoute("get", A \o U, <<Mw("ma"), Mw("h")>>)

-----------------------------------------------------------------------------
(* serveStatic *)

\* where serveStatic is to mount for a given route argument
StaticMountFor(route) ==
  CASE route = Undefined \/ route = <<>> -> <<"/">>
    [] route # Undefined /\ route # <<>> /\ route[1] = "/" -> route
    [] OTHER -> <<"/">> \o route

\* the directory a dirPath argument names, seen from the working directory
DirectoryFor(dirPath) ==
  IF dirPath.abs THEN dirPath.text ELSE "/srv/app/" \o dirPath.text

\* C18: serveStatic(dirPath, route) adds one layer to the application: the
\* static handler for dirPath resolved against the working directory, mounted
\* at '/' when route is absent or empty, at route when it starts with '/', at
\* '/' + route otherwise, whatever the global base route is; nothing else
\* changes.
C18_StaticMount ==
  [][(calls' = calls + 1 /\ lastOp'.name = "serveStatic") =>
       /\ Len(appStack') = Len(appStack) + 1
       /\ SubSeq(appStack', 1, Len(appStack)) = appStack
       /\ appStack'[Len(appStack')].kind = "use"
       /\ appStack'[Len(appStack')].path = StaticMountFor(lastOp'.args.route)
       /\ appStack'[Len(appStack')].handlers =
            <<[type |-> "builtin", name |-> "express.static", inst |-> "", no |-> 0,
               key |-> DirectoryFor(lastOp'.args.dirPath)]>>
       /\ UNCHANGED <<config, container, routers, listening, last>>]_vars

\* serveStatic('public', 'p') called after baseRoute('a'): mounted at /p
C18_Witness ==
  /\ lastOp.name = "serveStatic"
  /\ lastOp.args.route = <<"p">>
  /\ config.globalBaseRoute = A
  /\ appStack[Len(appStack)].path = <<"/", "p">>
  /\ appStack[Len(appStack)].handlers[1].key = "/srv/app/public"

-----------------------------------------------------------------------------
(* The order of the registration pass *)

ProviderSeq(mod) ==
  IF Len(DecoratedMeta[mod].module) = 0 THEN <<>>
  ELSE LET ps == DecoratedMeta[mod].module[1].providers
       IN IF ps = Undefined THEN <<>> ELSE ps

\* the modules of a registration list, groups opened, in list order
RECURSIVE ModuleSeq(_, _)
ModuleSeq(regs, i) ==
  IF i > Len(regs) THEN <<>>
  ELSE (IF regs[i].form = "class" THEN <<regs[i].cls>> ELSE regs[i].modules)
       \o ModuleSeq(regs, i + 1)

\* what is to happen for one module: its providers in list order, then for
\* each controller in list order its instance is fetched and its router mounted
EventsOfModule(mod) ==
  [k \in 1..Len(ProviderSeq(mod)) |-> [what |-> "provider", cls |-> ProviderSeq(mod)[k]]]
    \o [k \in 1..(2 * Len(ControllerSeq(mod))) |->
          IF k % 2 = 1
          THEN [what |-> "instance", cls |-> ControllerSeq(mod)[(k + 1) \div 2]]
          ELSE [what |-> "mount", cls |-> ControllerSeq(mod)[k \div 2]]]
RECURSIVE ExpectedPass(_, _)
ExpectedPass(mods, i) ==
  IF i > Len(mods) THEN <<>>
  ELSE EventsOfModule(mods[i]) \o ExpectedPass(mods, i + 1)

IsMount(e) == e.what = "mount"
\* every matching controller route, as <<layer of the router, layer of the route>>
AllControllerMatches == ControllerMatches(Len(appStack) + 1, last.req)
Earlier(a, b) == a[1] < b[1] \/ (a[1] = b[1] /\ a[2] < b[2])

\* of the mounted routes that match a request, the one registered first is the
\* one whose method is called first
FirstRegisteredHandles ==
  (last.served /\ WrappedRuns # {}) =>
    LET first == RouteOf(last.trace[Min(WrappedRuns)].at)
    IN /\ first \in AllControllerMatches
       /\ \A m \in AllControllerMatches : ~Earlier(m, first)

\* C19: a registerModules call is one pass in list order: registrations in
\* order, the modules of a group in order, for each module first its providers
\* in order and then its controllers in order, each controller's instance
\* fetched and its router mounted before the next one is looked at; a pass that
\* throws has done a prefix of that. The routers are on the application in the
\* order they were mounted, and of two mounted routes that match a request the
\* one registered first handles it.
C19_OneSequentialPass ==
  [][/\ (calls' = calls + 1 /\ lastOp'.name = "registerModules") =>
          LET expected == ExpectedPass(ModuleSeq(lastOp'.args, 1), 1)
              mounts == SelectSeq(lastOp'.did, IsMount)
          IN /\ IsPrefix(lastOp'.did, expected)
             /\ ~Threw(ret'.thrown) => lastOp'.did = expected
             /\ OldLayersKept
             /\ Len(appStack') = Len(appStack) + Len(mounts)
             /\ \A k \in 1..Len(mounts) :
                  /\ appStack'[Len(appStack) + k].kind = "router"
                  /\ appStack'[Len(appStack) + k].origin.controller = mounts[k].cls
     /\ FirstRegisteredHandles']_vars

\* RootModule then UserModule registered in one call; GET /u matches a route of
\* both controllers and RootController's, mounted first, answered
C19_Witness ==
  /\ last.served
  /\ Cardinality({m[1] : m \in AllControllerMatches}) = 2
  /\ WrappedRuns # {}
  /\ last.trace[Min(WrappedRuns)].fn.inst = "RootController"
  /\ Len(last.responses) = 1
  /\ last.responses[1].by = "res.json"

-----------------------------------------------------------------------------
(* The reach of group and controller middleware *)

\* the runs of middleware a controller's router holds through router.use: the
\* group's middlewares and those of @Controller
RouterMiddlewareRuns ==
  {k \in TraceIdx :
     /\ Len(last.trace[k].at) = 2
     /\ appStack[last.trace[k].at[1]].kind = "router"
     /\ appStack[last.trace[k].at[1]].stack[last.trace[k].at[2]].kind = "use"}

\* C20: a middleware given in a group's middlewares or in @Controller(basePath,
\* middlewares) of controller A runs for a request only if the request is
\* dispatched to a route of A: whenever such a middleware ran, a route of A's
\* router matches the request.
C20_MiddlewareScopedToController ==
  last.served =>
    \A k \in RouterMiddlewareRuns :
      \E m \in AllControllerMatches : m[1] = last.trace[k].at[1]

-----------------------------------------------------------------------------
(* Route lists of classes that extend one another *)

\* stores a route decorator may find: nothing yet, and the metadata of the
\* application with and without the routes of BaseController's subclass
RouteStores ==
  {EmptyMeta,
   RouteDecorator("get", Slash, Undefined, "BaseController", "index", EmptyMeta),
   DecoratedStore}

\* the route list Reflect.getMetadata gives for a class ([] when none)
RouteListOf(meta, c) ==
  IF hasMetadata(meta, "routes", c) THEN getMetadata(meta, "routes", c)[1] ELSE <<>>

\* the route list of class c as a registration of c would read it, before and
\* after a verb decorator is applied to a method of another class
OthersKeepTheirRoutes ==
  \A meta \in RouteStores, method \in HttpMethods,
     target \in {"UserController", "SubController", "OtherSubController"},
     c \in {"UserController", "RootController", "BaseController", "SubController",
            "OtherSubController"} :
    (c # target /\ MetadataOwner(meta, "routes", c) = c) =>
      RouteListOf(RouteDecorator(method, <<"/", "x">>, Undefined, target, "other", meta), c)
        = RouteListOf(meta, c)

\* C21: applying a verb decorator to a method of class C changes the route
\* list of no other class that has a list of its own, a class C extends and
\* the other classes extending it included; so every router mounted for a
\* controller carries only routes for methods the controller has.
C21_DecoratorTouchesOwnClassOnly ==
  /\ \A i \in 1..Len(appStack) :
       appStack[i].kind = "router" =>
         \A k \in 1..Len(RoutesOn(appStack[i])) :
           LET handlers == RoutesOn(appStack[i])[k].handlers
           IN handlers[Len(handlers)].key \in Methods[appStack[i].origin.controller]
  /\ OthersKeepTheirRoutes

-----------------------------------------------------------------------------
(* Annotations of classes that extend an annotated class *)

\* the decorator was applied to the class itself
ItselfDecorated(key, c) == Len(DecoratedStore.own[c][key]) > 0

\* C22: a class on which @Controller (resp. @Module) was not itself applied is
\* rejected by assertController (resp. assertModule), also when it extends a
\* class that was decorated; so no router is mounted for a class that was not
\* itself declared a controller.
C22_AnnotationChecksArePerClass ==
  /\ \A i \in 1..Len(appStack) :
       appStack[i].kind = "router" =>
         ItselfDecorated("controller", appStack[i].origin.controller)
  /\ \A c \in Classes :
       /\ ~ItselfDecorated("controller", c) => Threw(assertController(c))
       /\ ~ItselfDecorated("module", c) => Threw(assertModule(c))

-----------------------------------------------------------------------------
(* C23: the global base route is always normalised *)

\* '' or a string that starts with '/' and does not end with '/'
IsNormalisedRoute(g) == Len(g) = 0 \/ (g[1] = "/" /\ g[Len(g)] # "/")

OnlySlashes(p) == \A i \in 1..Len(p) : p[i] = "/"

\* C23: config.globalBaseRoute is '' or starts with '/' and does not end with
\* '/', before and after every step; a baseRoute call with '', '/' or a path
\* made only of slashes stores ''; the stored value is determined by the
\* argument of the last call alone (the slash-led argument without its
\* trailing slashes, whatever was stored before); a call with the stored
\* value as argument changes nothing, and normalising the stored value again
\* gives the stored value.
C23_BaseRouteNormalised ==
  [][ /\ IsNormalisedRoute(config.globalBaseRoute)
      /\ IsNormalisedRoute(config'.globalBaseRoute)
      /\ (calls' = calls + 1 /\ lastOp'.name = "baseRoute") =>
           /\ OnlySlashes(lastOp'.args) => config'.globalBaseRoute = <<>>
           /\ IsNormalisedPrefixOf(config'.globalBaseRoute, lastOp'.args)
           /\ lastOp'.args = config.globalBaseRoute => config' = config
           /\ baseRoute(config'.globalBaseRoute) = config'.globalBaseRoute ]_vars

\* baseRoute('//') as the second configuration call: the stored prefix is ''
C23_Witness ==
  /\ calls = 2
  /\ lastOp.name = "baseRoute"
  /\ lastOp.args = <<"/", "/">>
  /\ config.globalBaseRoute = <<>>

-----------------------------------------------------------------------------
(* A registration pass that fails *)

\* the events of one module up to the first controller without @Controller
UpToOffender(evs) ==
  LET bad == {k \in 1..Len(evs) :
                evs[k].what # "provider" /\ Len(DecoratedMeta[evs[k].cls].controller) = 0}
  IN IF bad = {} THEN evs ELSE SubSeq(evs, 1, Min(bad) - 1)

\* what a pass has done when the first assertion fails: everything for the
\* classes before the failing one, nothing for it or after it
RECURSIVE ProcessedBeforeFailure(_, _)
ProcessedBeforeFailure(mods, i) ==
  IF i > Len(mods) \/ Len(DecoratedMeta[mods[i]].module) = 0 THEN <<>>
  ELSE LET evs == EventsOfModule(mods[i])
       IN IF UpToOffender(evs) # evs THEN UpToOffender(evs)
          ELSE evs \o ProcessedBeforeFailure(mods, i + 1)

IsProvider(e) == e.what = "provider"

\* C24: when assertModule or assertController throws inside a registerModules
\* call, the call has done exactly what comes before the failing class in the
\* pass and nothing for it or after it; the routers mounted for the
\* controllers before it are on the application, behind the layers that were
\* there; the providers visited before it have their container entry and the
\* controllers mounted before it their instance, no entry the container held
\* is taken away; and the configuration is the one before the call.
C24_FailedPassIsNotRolledBack ==
  [][ (calls' = calls + 1 /\ lastOp'.name = "registerModules"
         /\ Threw(ret'.thrown) /\ ret'.thrown[1].error = "Error") =>
        LET did == lastOp'.did
            mounts == SelectSeq(did, IsMount)
            providers == SelectSeq(did, IsProvider)
        IN /\ did = ProcessedBeforeFailure(ModuleSeq(lastOp'.args, 1), 1)
           /\ OldLayersKept
           /\ Len(appStack') = Len(appStack) + Len(mounts)
           /\ \A k \in 1..Len(mounts) :
                /\ appStack'[Len(appStack) + k].kind = "router"
                /\ appStack'[Len(appStack) + k].origin.controller = mounts[k].cls
                /\ container'[mounts[k].cls].state = "instance"
           /\ \A k \in 1..Len(providers) : ContainerHas(container', providers[k].cls)
           /\ \A c \in Classes : ContainerHas(container, c) => ContainerHas(container', c)
           /\ config' = config ]_vars

\* registerModules([LooseModule, PlainClass]) as the first call: PlainService
\* was constructed, RootController's router is mounted, and the call failed on
\* PlainClass
C24_Witness ==
  /\ calls = 1
  /\ lastOp.name = "registerModules"
  /\ lastOp.args = <<Plain("LooseModule"), Plain("PlainClass")>>
  /\ ret.thrown = ModuleError("PlainClass")
  /\ lastOp.did = <<Ev("provider", "PlainService"), Ev("instance", "RootController"),
                    Ev("mount", "RootController")>>
  /\ container["PlainService"].state = "instance"
  /\ MountedFor("RootController") # {}

-----------------------------------------------------------------------------
(* One controller handler per request *)

\* the request went on past the invocation k only into error handling
OnlyErrorHandlersAfter(k) ==
  \A j \in TraceIdx : j > k => last.trace[j].fn.type = "errorHandler"

\* C25: for every request, a wrapped controller handler whose method did not
\* call next itself is the last route handler of the request: the wrapper calls
\* next only with an error (what the method threw or rejected with, or the
\* TypeError of res.json), so after it nothing runs but error-handling
\* middleware, and nothing at all when the wrapper did not call next: no later
\* route, no second mount of the controller, no not-found handler and not
\* express's final handler. Unless a method called next itself at most one
\* wrapped handler runs, and a method that returns undefined without
\* responding leaves the request without any response.
C25_AtMostOneWrappedHandler ==
  last.served =>
    /\ \A k \in WrappedRuns :
         LET e == last.trace[k]
         IN /\ Len(e.next) <= 1
            /\ Len(e.next) = 1 =>
                 \/ e.beh.kind \in {"throw", "reject"} /\ e.next = <<e.beh.val>>
                 \/ ~Serialisable(e.beh.val) /\ e.next = <<"TypeError">>
            /\ ~e.ownNext => OnlyErrorHandlersAfter(k)
            /\ (~e.ownNext /\ Len(e.next) = 0) =>
                 /\ k = Len(last.trace)
                 /\ \A r \in 1..Len(last.responses) :
                      /\ last.responses[r].by \in {"handler", "res.json"}
                      /\ last.responses[r].at = e.at
            /\ (e.beh = Beh("return", "undefined", FALSE) /\ ~e.sentAtTest) =>
                 last.responses = <<>>
    /\ (\A k \in WrappedRuns : ~last.trace[k].ownNext) => Cardinality(WrappedRuns) <= 1

\* UserModule registered twice and GET /u: both routers have a matching route,
\* the method of the first returned undefined without responding, the second
\* was not called and the request has no response
C25_Witness ==
  /\ last.served
  /\ Cardinality(MountedFor("UserController")) = 2
  /\ \A i \in MountedFor("UserController") : \E m \in AllControllerMatches : m[1] = i
  /\ Cardinality(WrappedRuns) = 1
  /\ \A k \in WrappedRuns :
       /\ last.trace[k].beh = Beh("return", "undefined", FALSE)
       /\ last.trace[k].at[1] = Min(MountedFor("UserController"))
  /\ last.responses = <<>>

-----------------------------------------------------------------------------
(* Precedence of the proxy's lookup *)

\* the names a read may use: every member of Codex, the members of Express
\* the model knows, and one name neither has
PropNames == CodexMembers \cup ExpressFunctions \cup ExpressValues \cup {"nope"}

\* members of Codex, five of them assigned in the constructor, one a field
AnsweredByCodex == {"get", "post", "put", "delete", "patch", "use", "instance", "app"}

\* C26: a read through the proxy of a name that is defined on the Codex object
\* or its prototype (get, post, put, delete, patch, use, instance and app among
\* them) gives the Codex member and nothing of Express, also when Express has
\* a member of that name; a read of any other name gives what Express has
\* under it; and the test against the blocked list answers no read, each of
\* its four names being a member of Codex.
C26_ProxyPrecedence ==
  /\ AnsweredByCodex \cup blocked \subseteq CodexMembers
  /\ \A prop \in PropNames :
       /\ proxyBranch(prop) # "blocked"
       /\ prop \in CodexMembers =>
            proxyHandler(prop, "proxy") = [kind |-> "member", of |-> "codex", name |-> prop]
       /\ prop \notin CodexMembers =>
            /\ proxyHandler(prop, "proxy").of # "codex"
            /\ proxyHandler(prop, "proxy").kind =
                 (IF prop \in ExpressFunctions THEN "forwarder"
                  ELSE IF prop \in ExpressValues THEN "value" ELSE "undefined")
  /\ (lastOp.name = "read" /\ lastOp.on = "proxy") =>
       ret = Returned(IF lastOp.args \in CodexMembers THEN "member:codex." \o lastOp.args
                      ELSE IF lastOp.args \in ExpressFunctions
                        THEN "forwarder:app." \o lastOp.args
                      ELSE IF lastOp.args \in ExpressValues
                        THEN "value:app." \o lastOp.args
                      ELSE "undefined:.")

\* codex.use read through the proxy: Codex's use, though Express has a use too
\* and the name is on the blocked list
C26_Witness ==
  /\ lastOp = Op("read", "proxy", "use")
  /\ "use" \in ExpressFunctions \cap blocked
  /\ ret = Returned("member:codex.use")

====
